---- MODULE Spec2Model ----
(***************************************************************************)
(* The LangGraph content pipeline of agents/langgraph_workflow.py:         *)
(* run_langgraph_workflow and its six nodes, as a state machine.           *)
(*                                                                         *)
(* Two runs of the pipeline are modelled side by side on the same topic,   *)
(* the same URL list and the same fetch / backend / program behaviour:     *)
(* run 1 is given a progress callback, run 2 is given none.  Texts are     *)
(* strings ("" is the empty string, None stands for Python's None); the    *)
(* user-visible messages are rendered in ASCII.                            *)
(***************************************************************************)
EXTENDS Integers, Sequences, FiniteSets, TLC

VARIABLE
    result      \* result[r]: what the caller of run r has got

\* ------------------------------------------------------------------ bounds
\* longest URL list handed to run_langgraph_workflow
MaxUrls == 4
\* most faults (failed fetch, backend error, program that does not return a
\* record, progress callback that raises) injected into one pair of runs
MaxFaults == 2

\* ------------------------------------------------------- program constants
\* state['trend_urls'][:3]
URL_CAP == 3
\* main_content_selectors[:3], image_selectors[:3], link_selectors[:3]
SELECTOR_CAP == 3
\* text_selectors[:5]
TEXT_SELECTOR_CAP == 5

None == "None"

Runs == {1, 2}

Min(a, b) == IF a < b THEN a ELSE b

\* s[:n]
Take(s, n) == SubSeq(s, 1, Min(n, Len(s)))

\* d.get(k, default) on a dict modelled as a record
Get(d, k, default) == IF k \in DOMAIN d THEN d[k] ELSE default

URL(i) == "https://site" \o ToString(i)

Topics == {"AI Trends", "X"}

\* --------------------------------------------------- WorkflowState (l.27-37)
WorkflowState(topic, trend_urls, progress_callback) ==
    [ topic             |-> topic,
      trend_urls        |-> trend_urls,
      website_analyses  |-> <<>>,
      scraping_codes    |-> <<>>,
      scraped_data      |-> <<>>,
      summary           |-> "",
      video_script      |-> "",
      social_media      |-> "",
      progress_callback |-> progress_callback,
      error_messages    |-> <<>> ]

\* ------------------------------------------ analyze_website_structure (l.65)
MainCandidates  == <<"main", "article", ".content", ".main-content", "#content", ".post", ".entry">>
TextCandidates  == <<"p", "h1", "h2", "h3", ".text", ".description", ".summary">>
ImageCandidates == <<"img", ".image", ".photo", "figure img">>
LinkCandidates  == <<"a[href]", ".link", ".more-link">>

\* the candidates that soup.select() matches on the page, in candidate order
Matching(candidates, page) == SelectSeq(candidates, LAMBDA sel : sel \in page.matched)

\* a choice that looks at the text selectors before the main-content ones
SuggestedApproach_TextFirst(has_json_ld, main_content_selectors, text_selectors) ==
    IF has_json_ld THEN "json-ld"
    ELSE IF text_selectors # <<>> THEN "text-extraction"
    ELSE IF main_content_selectors # <<>> THEN "content-selector"
    ELSE "general-scraping"

SuggestedApproach(has_json_ld, main_content_selectors, text_selectors) ==
    IF has_json_ld THEN "json-ld"
    ELSE IF main_content_selectors # <<>> THEN "content-selector"
    ELSE IF text_selectors # <<>> THEN "text-extraction"
    ELSE "general-scraping"

\* a degraded WebsiteStructure that loses the error text
DegradedStructure_NoError(url, error) ==
    [ url                    |-> url,
      title                  |-> "Analysis failed",
      main_content_selectors |-> <<>>,
      text_selectors         |-> <<"p", "h1", "h2", "h3">>,
      image_selectors        |-> <<"img">>,
      link_selectors         |-> <<"a">>,
      meta_info              |-> [domain |-> url],
      suggested_approach     |-> "general-scraping" ]

\* the except branch: the degraded WebsiteStructure
DegradedStructure(url, error) ==
    [ url                    |-> url,
      title                  |-> "Analysis failed",
      main_content_selectors |-> <<>>,
      text_selectors         |-> <<"p", "h1", "h2", "h3">>,
      image_selectors        |-> <<"img">>,
      link_selectors         |-> <<"a">>,
      meta_info              |-> [error |-> error],
      suggested_approach     |-> "general-scraping" ]

\* resp is what requests.get + raise_for_status + BeautifulSoup give for the
\* url: [ok |-> FALSE, error |-> str(e)] or [ok |-> TRUE, page |-> ...].
\* The result says whether an Exception left the function (it never does:
\* the whole body is inside try ... except Exception).
analyze_website_structure(url, resp) ==
    IF resp.ok
    THEN LET page == resp.page
             main_content_selectors == Matching(MainCandidates, page)
             text_selectors         == Matching(TextCandidates, page)
             image_selectors        == Matching(ImageCandidates, page)
             link_selectors         == Matching(LinkCandidates, page)
             meta_info == [ domain               |-> url,
                            has_json_ld          |-> page.json_ld,
                            has_meta_description |-> page.meta_description,
                            page_lang            |-> page.lang,
                            total_elements       |-> page.total_elements,
                            has_structured_data  |-> page.structured_data ]
         IN [ raised |-> FALSE,
              value  |->
                [ url                    |-> url,
                  title                  |-> IF page.title = None THEN "No title found" ELSE page.title,
                  main_content_selectors |-> Take(main_content_selectors, SELECTOR_CAP),
                  text_selectors         |-> Take(text_selectors, TEXT_SELECTOR_CAP),
                  image_selectors        |-> Take(image_selectors, SELECTOR_CAP),
                  link_selectors         |-> Take(link_selectors, SELECTOR_CAP),
                  meta_info              |-> meta_info,
                  suggested_approach     |-> SuggestedApproach(meta_info.has_json_ld,
                                                               main_content_selectors,
                                                               text_selectors) ] ]
    ELSE [ raised |-> FALSE, value |-> DegradedStructure(url, resp.error) ]

\* ------------------------------------------------- analyze_urls_node (l.152)
\* a loop that forgets the [:3]
AdmittedUrls_NoCap(trend_urls) == trend_urls

\* the URLs the loop visits
AdmittedUrls(trend_urls) == Take(trend_urls, URL_CAP)

AnalysisRecord(url, resp) ==
    LET analysis == analyze_website_structure(url, resp)
    IN IF ~analysis.raised
       THEN [ url |-> url, structure |-> analysis.value, analysis_success |-> TRUE ]
       ELSE [ url |-> url, structure |-> None, analysis_success |-> FALSE,
              error |-> analysis.error ]

\* fetch maps each URL to what the network gives for it
analyze_urls_node(state, fetch) ==
    LET urls == AdmittedUrls(state.trend_urls)
    IN [ state EXCEPT !.website_analyses =
            [ i \in 1..Len(urls) |-> AnalysisRecord(urls[i], fetch[urls[i]]) ] ]

\* ---------------------------------------- generate_scraping_code_node (l.182)
\* A backend response is a sequence of tokens: a fence opener with the python
\* tag, a bare fence, whitespace, and words of prose or program text.
PyFence == "[fence python]"
Fence   == "[fence]"
WS      == " "

\* the text of a token sequence
RECURSIVE Join(_)
Join(tokens) == IF tokens = <<>> THEN "" ELSE Head(tokens) \o Join(Tail(tokens))

\* str.strip()
RECURSIVE Strip(_)
Strip(tokens) ==
    IF tokens = <<>> THEN <<>>
    ELSE IF Head(tokens) = WS THEN Strip(Tail(tokens))
    ELSE IF tokens[Len(tokens)] = WS THEN Strip(SubSeq(tokens, 1, Len(tokens) - 1))
    ELSE tokens

\* s.find(sub, start) over tokens: the first position >= start whose token
\* contains sub, -1 when there is none (the bare fence is contained in the
\* tagged fence opener too)
Contains(token, sub) == token = sub \/ (sub = Fence /\ token = PyFence)

Find(tokens, sub, start) ==
    LET hits == { i \in start..Len(tokens) : Contains(tokens[i], sub) }
    IN IF hits = {} THEN -1 ELSE CHOOSE i \in hits : \A j \in hits : i <= j

\* l.236-241: the program text taken from the response
ExtractCode(content) ==
    IF Find(content, PyFence, 1) # -1
    THEN LET code_start == Find(content, PyFence, 1) + 1
             code_end   == Find(content, Fence, code_start)
         IN IF code_end # -1
            THEN Join(Strip(SubSeq(content, code_start, code_end - 1)))
            ELSE Join(content)
    ELSE Join(content)

\* the analysis_text rendered into the prompt (l.218-226)
AnalysisText(structure) ==
    [ url                    |-> structure.url,
      title                  |-> structure.title,
      suggested_approach     |-> structure.suggested_approach,
      main_content_selectors |-> structure.main_content_selectors,
      text_selectors         |-> structure.text_selectors,
      image_selectors        |-> structure.image_selectors,
      meta_info              |-> structure.meta_info ]

\* whether the loop body reaches llm.invoke for this item (l.207-214)
SynthesisAttempted(website_analysis) == website_analysis.analysis_success

\* reply is what llm.invoke gives for the item: [ok |-> TRUE, content |-> tokens]
\* or [ok |-> FALSE, error |-> str(e)]
CodeRecord(website_analysis, reply) ==
    IF ~SynthesisAttempted(website_analysis)
    THEN [ url |-> website_analysis.url, code |-> None, generation_success |-> FALSE,
           error |-> Get(website_analysis, "error", "Unknown error") ]
    ELSE IF reply.ok
    THEN [ url |-> website_analysis.structure.url,
           code |-> ExtractCode(reply.content),
           generation_success |-> TRUE,
           structure_info |-> AnalysisText(website_analysis.structure) ]
    ELSE [ url |-> website_analysis.url, code |-> None, generation_success |-> FALSE,
           error |-> reply.error ]

\* a loop that appends nothing for an item whose synthesis failed
generate_scraping_code_node_SkipFailed(state, synth) ==
    [ state EXCEPT !.scraping_codes =
        SelectSeq([ i \in 1..Len(state.website_analyses) |->
                      CodeRecord(state.website_analyses[i],
                                 synth[state.website_analyses[i].url]) ],
                  LAMBDA c : c.generation_success) ]

generate_scraping_code_node(state, synth) ==
    [ state EXCEPT !.scraping_codes =
        [ i \in 1..Len(state.website_analyses) |->
            CodeRecord(state.website_analyses[i], synth[state.website_analyses[i].url]) ] ]

\* a node that asks the backend twice for every item
SynthesisCalls_Twice(state) ==
    LET attempted == SelectSeq(state.website_analyses, SynthesisAttempted)
        calls == [ i \in 1..Len(attempted) |->
                     [ node   |-> "generate_code",
                       system |-> AnalysisText(attempted[i].structure),
                       human  |-> attempted[i].structure.url ] ]
    IN calls \o calls

\* the llm.invoke calls the node makes, in order: one per attempted item
\* (l.228-233)
SynthesisCalls(state) ==
    LET attempted == SelectSeq(state.website_analyses, SynthesisAttempted)
    IN [ i \in 1..Len(attempted) |->
           [ node   |-> "generate_code",
             system |-> AnalysisText(attempted[i].structure),
             human  |-> attempted[i].structure.url ] ]

\* ----------------------------------------- execute_scraping_code_node (l.265)
\* Python truthiness of a payload or a program text
Truthy(x) == x \notin {None, "", "{}"}

\* a guard that forgets the test of the program text
ShortCircuited_GenerationOnly(code_info) == ~code_info.generation_success

\* l.275: the item is answered without running anything
ShortCircuited(code_info) == ~code_info.generation_success \/ ~Truthy(code_info.code)

\* What exec(code) followed by main(url) does, per URL:
\*   [kind |-> "return", data |-> payload]   main returned
\*   [kind |-> "no_main"]                    the text defines no main
\*   [kind |-> "error", error |-> str(e)]    an Exception (SyntaxError, ...)
\*   [kind |-> "exit"]                       a BaseException that is no Exception
\*                                           (SystemExit, KeyboardInterrupt)
\*   [kind |-> "hang"]                       the call never returns
\*   [kind |-> "not_run"]                    the program is never started
\* whether the except Exception clause (l.315) catches what the program raised
CaughtByExecutor(outcome) == outcome.kind = "error"

ExecRecord(code_info, outcome) ==
    IF ShortCircuited(code_info)
    THEN [ url |-> code_info.url, data |-> None, execution_success |-> FALSE,
           error |-> Get(code_info, "error", "No code to execute") ]
    ELSE IF outcome.kind = "return"
    THEN [ url |-> code_info.url, data |-> outcome.data, execution_success |-> TRUE ]
    ELSE IF outcome.kind = "no_main"
    THEN [ url |-> code_info.url, data |-> None, execution_success |-> FALSE,
           error |-> "No main function found in generated code" ]
    ELSE [ url |-> code_info.url, data |-> None, execution_success |-> FALSE,
           error |-> outcome.error ]

\* the items whose program leaves the loop: it never returns, or it raises
\* something the per-item handler does not catch
Escaping(state, exec) ==
    { i \in 1..Len(state.scraping_codes) :
        /\ ~ShortCircuited(state.scraping_codes[i])
        /\ LET o == exec[state.scraping_codes[i].url]
           IN o.kind = "hang" \/ (o.kind \in {"error", "exit"} /\ ~CaughtByExecutor(o)) }

FirstOf(S) == CHOOSE i \in S : \A j \in S : i <= j

\* the items whose program is started: not short-circuited, and no earlier
\* item left the loop
Started(state, exec) ==
    { i \in 1..Len(state.scraping_codes) :
        /\ ~ShortCircuited(state.scraping_codes[i])
        /\ \A j \in Escaping(state, exec) : i <= j }

\* [kind |-> "ok", state |-> ...], or how the node is left otherwise
execute_scraping_code_node(state, exec) ==
    LET escaping == Escaping(state, exec)
    IN IF escaping = {}
       THEN [ kind  |-> "ok",
              state |-> [ state EXCEPT !.scraped_data =
                            [ i \in 1..Len(state.scraping_codes) |->
                                ExecRecord(state.scraping_codes[i],
                                           exec[state.scraping_codes[i].url]) ] ] ]
       ELSE LET o == exec[state.scraping_codes[FirstOf(escaping)].url]
            IN IF o.kind = "hang" THEN [ kind |-> "hang" ]
               ELSE IF o.kind = "exit" THEN [ kind |-> "exit" ]
               ELSE [ kind |-> "raise", error |-> o.error ]

\* ------------------------------------------------- summary_agent_node (l.328)
\* a filter that forgets the payload test of l.340
SuccessfulData_KeepsEmpty(state) ==
    LET kept == SelectSeq(state.scraped_data, LAMBDA item : item.execution_success)
    IN [ i \in 1..Len(kept) |-> [ url |-> kept[i].url, content |-> kept[i].data ] ]

\* l.338-344
SuccessfulData(state) ==
    LET kept == SelectSeq(state.scraped_data,
                          LAMBDA item : item.execution_success /\ Truthy(item.data))
    IN [ i \in 1..Len(kept) |-> [ url |-> kept[i].url, content |-> kept[i].data ] ]

CannedSummary(topic) == "No valid data was scraped for topic " \o topic

\* json.dumps raises TypeError on a payload that is not JSON serializable
NonJson == "non-json record"

JsonDumpsRaises(successful_data) ==
    \E i \in 1..Len(successful_data) : successful_data[i].content = NonJson

\* the llm.invoke call of l.370-375: the prompt embeds the topic and the
\* serialized successful_data
SummaryCall(state) ==
    [ node   |-> "summarize",
      system |-> [ topic |-> state.topic, data |-> SuccessfulData(state) ],
      human  |-> state.topic ]

\* a node that answers an error of the backend with an empty summary
summary_agent_node_Silent(state, reply) ==
    LET successful_data == SuccessfulData(state)
    IN IF successful_data = <<>>
       THEN [ kind |-> "ok", calls |-> <<>>,
              state |-> [ state EXCEPT !.summary = CannedSummary(state.topic) ] ]
       ELSE IF JsonDumpsRaises(successful_data)
       THEN [ kind |-> "raise", error |-> "TypeError: not JSON serializable" ]
       ELSE IF reply.ok
       THEN [ kind |-> "ok", calls |-> <<SummaryCall(state)>>,
              state |-> [ state EXCEPT !.summary = reply.content ] ]
       ELSE [ kind |-> "ok", calls |-> <<SummaryCall(state)>>,
              state |-> [ state EXCEPT !.summary = "" ] ]

\* reply is what llm.invoke gives: [ok |-> TRUE, content |-> text] or
\* [ok |-> FALSE, error |-> str(e)]
summary_agent_node(state, reply) ==
    LET successful_data == SuccessfulData(state)
    IN IF successful_data = <<>>
       THEN [ kind |-> "ok", calls |-> <<>>,
              state |-> [ state EXCEPT !.summary = CannedSummary(state.topic) ] ]
       ELSE IF JsonDumpsRaises(successful_data)
       THEN [ kind |-> "raise", error |-> "TypeError: not JSON serializable" ]
       ELSE IF reply.ok
       THEN [ kind |-> "ok", calls |-> <<SummaryCall(state)>>,
              state |-> [ state EXCEPT !.summary = reply.content ] ]
       ELSE [ kind |-> "ok", calls |-> <<SummaryCall(state)>>,
              state |-> [ state EXCEPT !.summary = "Summary generation failed: " \o reply.error ] ]

\* ------------------------------------------------- script_writer_node (l.386)
\* the llm.invoke call of l.411-416
ScriptCall(state) ==
    [ node   |-> "write_script",
      system |-> [ topic |-> state.topic, summary |-> state.summary ],
      human  |-> state.topic ]

script_writer_node(state, reply) ==
    IF reply.ok
    THEN [ state EXCEPT !.video_script = reply.content ]
    ELSE [ state EXCEPT !.video_script = "Video script writing failed: " \o reply.error ]

\* ------------------------------------------- social_media_writer_node (l.427)
\* a call that leaves the script out of the prompt
SocialCall_SummaryOnly(state) ==
    [ node   |-> "write_social",
      system |-> [ topic |-> state.topic, video_script |-> "",
                   summary |-> state.summary ],
      human  |-> state.topic ]

\* the llm.invoke call of l.467-472
SocialCall(state) ==
    [ node   |-> "write_social",
      system |-> [ topic |-> state.topic, video_script |-> state.video_script,
                   summary |-> state.summary ],
      human  |-> state.topic ]

social_media_writer_node(state, reply) ==
    IF reply.ok
    THEN [ state EXCEPT !.social_media = reply.content ]
    ELSE [ state EXCEPT !.social_media = "Social media writing failed: " \o reply.error ]

\* --------------------------------------------- run_langgraph_workflow (l.509)
\* a bundle that carries the number of the runs that ended before it
Bundle_Numbered(final_state) ==
    [ video_script       |-> final_state.video_script,
      social_media       |-> final_state.social_media,
      summary            |-> final_state.summary,
      scraped_data_count |-> Cardinality({ i \in 1..Len(final_state.scraped_data) :
                                             final_state.scraped_data[i].execution_success }),
      processed_urls     |-> [ i \in 1..Len(final_state.website_analyses) |->
                                 final_state.website_analyses[i].url ],
      run_number         |-> Cardinality({ r \in DOMAIN result :
                                             result[r].status # "running" }) ]

\* a bundle that counts every result, failed or not
Bundle_CountsAll(final_state) ==
    [ video_script       |-> final_state.video_script,
      social_media       |-> final_state.social_media,
      summary            |-> final_state.summary,
      scraped_data_count |-> Len(final_state.scraped_data),
      processed_urls     |-> [ i \in 1..Len(final_state.website_analyses) |->
                                 final_state.website_analyses[i].url ] ]

\* l.549-555
Bundle(final_state) ==
    [ video_script       |-> final_state.video_script,
      social_media       |-> final_state.social_media,
      summary            |-> final_state.summary,
      scraped_data_count |-> Cardinality({ i \in 1..Len(final_state.scraped_data) :
                                             final_state.scraped_data[i].execution_success }),
      processed_urls     |-> [ i \in 1..Len(final_state.website_analyses) |->
                                 final_state.website_analyses[i].url ] ]

\* a defensive bundle that forgets the social copy
DefensiveBundle_NoSocial(error) ==
    [ video_script       |-> "Workflow failed: " \o error,
      social_media       |-> "",
      summary            |-> "",
      scraped_data_count |-> 0,
      processed_urls     |-> <<>> ]

\* l.559-565
DefensiveBundle(error) ==
    [ video_script       |-> "Workflow failed: " \o error,
      social_media       |-> "Workflow failed: " \o error,
      summary            |-> "",
      scraped_data_count |-> 0,
      processed_urls     |-> <<>> ]

\* ===================================================================== state
VARIABLES
    pc,         \* pc[r]: where run r stands: "start", a node of the graph,
                \*   "finish" (workflow.invoke returned), "returned" (the caller
                \*   has a bundle), "raised" (the caller got an exception),
                \*   "hung" (a call that never returns)
    state,      \* state[r]: the WorkflowState of run r
    progress,   \* progress[r]: the messages the progress callback was called with
    llm_log,    \* llm_log[r]: the llm.invoke calls of run r, in order
    llm_replies,\* llm_replies[r]: what llm.invoke gave for each of them
    visited,    \* visited[r]: the graph nodes entered, in order, then "finish"
    fetched,    \* fetched[u]: what the network gave for the URLs probed so far
    faults,     \* the faults injected so far (failed fetches, backend errors,
                \*   programs that do not return a record, callbacks that raise)
    ran,        \* ran[r]: the URLs whose program text run r has handed to exec
    modules,    \* the module objects of the process that every program is
                \*   handed (l.286-293): "pristine", or "patched" once a program
                \*   has replaced json.dumps
    env,        \* env[r]: the outcomes run r has been given so far
    overlap,    \* whether a run has taken a step while another was under way
    chat,       \* the conversational workflow (agents/workflow.py)
    search,     \* one call of WebSearch.search (tools/web_search.py)
    session,    \* the Streamlit session that starts the pipeline (app.py)
    validation, \* one call of validate_scraped_data (tools/web_scraper_tools.py)
    trends      \* a TrendFetcher and its clock (tools/trend_fetcher.py)

\* the variables of the pipeline, of the process it runs in, and all of them
pipeline == <<pc, state, progress, llm_log, llm_replies, visited, result, fetched, faults, ran>>
process  == <<modules, env, overlap>>
tools    == <<validation, trends>>
vars     == <<pipeline, process, chat, search, session, tools>>

\* the graph of create_langgraph_workflow (l.483-506): entry point, edges,
\* finish point
EntryPoint == "analyze_urls"

Edge(node) ==
    CASE node = "analyze_urls"  -> "generate_code"
      [] node = "generate_code" -> "execute_code"
      [] node = "execute_code"  -> "summarize"
      [] node = "summarize"     -> "write_script"
      [] node = "write_script"  -> "write_social"
      [] node = "write_social"  -> "finish"

GraphNodes == {"analyze_urls", "generate_code", "execute_code", "summarize",
               "write_script", "write_social"}

\* a summary node that reports the message of the node before it
Milestone_Copied(step) ==
    CASE step = "start"         -> "Starting LangGraph workflow"
      [] step = "analyze_urls"  -> "Analyzing trend website structure"
      [] step = "generate_code" -> "Code Agent is generating scraping code"
      [] step = "execute_code"  -> "Code Executor is running scraping code"
      [] step = "summarize"     -> "Code Executor is running scraping code"
      [] step = "write_script"  -> "Script Writer is writing the video script"
      [] step = "write_social"  -> "Social Media Writer is writing posts"
      [] step = "finish"        -> "LangGraph workflow complete"

\* the message each step passes to the progress callback
Milestone(step) ==
    CASE step = "start"         -> "Starting LangGraph workflow"
      [] step = "analyze_urls"  -> "Analyzing trend website structure"
      [] step = "generate_code" -> "Code Agent is generating scraping code"
      [] step = "execute_code"  -> "Code Executor is running scraping code"
      [] step = "summarize"     -> "Summary Agent is consolidating results"
      [] step = "write_script"  -> "Script Writer is writing the video script"
      [] step = "write_social"  -> "Social Media Writer is writing posts"
      [] step = "finish"        -> "LangGraph workflow complete"

\* if state.get('progress_callback'): / if progress_callback:
HasSink(st) == st.progress_callback # None

SinkError == "progress callback error"
LlmClientError == "llm client error"

\* ---------------------------------------------------------------- the inputs
\* the URL lists a run is given: every length up to MaxUrls, in two orders,
\* without repetitions
UrlLists ==
    { [ i \in 1..n |-> URL(i) ] : n \in 0..MaxUrls }
        \cup { [ i \in 1..MaxUrls |-> URL(MaxUrls + 1 - i) ] }

UrlsOf(trend_urls) == { trend_urls[i] : i \in 1..Len(trend_urls) }

\* what the network gives for a page
SamplePage ==
    [ title |-> "Page", json_ld |-> FALSE, meta_description |-> TRUE,
      lang |-> "en", total_elements |-> 40, structured_data |-> FALSE,
      matched |-> {"article", "p", "h1", "img", "a[href]"} ]

NominalFetch == [ ok |-> TRUE, page |-> SamplePage ]

FetchOutcomes == { NominalFetch, [ ok |-> FALSE, error |-> "connection error" ] }

\* what llm.invoke gives
BackendError == "backend error"

NominalSynth ==
    [ ok |-> TRUE,
      content |-> <<"Here:", PyFence, WS, "def main(url): ...", WS, Fence, "Done.">> ]

SynthReplies ==
    { NominalSynth,
      [ ok |-> TRUE, content |-> <<PyFence, WS, Fence>> ],
      [ ok |-> FALSE, error |-> BackendError ] }

TextReplies(text) ==
    { [ ok |-> TRUE, content |-> text ], [ ok |-> FALSE, error |-> BackendError ] }

\* what running a program does
NominalExec == [ kind |-> "return", data |-> "record" ]

ExecOutcomes ==
    { NominalExec,
      [ kind |-> "return", data |-> "{}" ],
      [ kind |-> "return", data |-> NonJson ],
      [ kind |-> "no_main" ],
      [ kind |-> "error", error |-> "runtime error" ],
      [ kind |-> "exit" ],
      [ kind |-> "hang" ] }

NotRun == [ kind |-> "not_run" ]

\* the number of llm.invoke calls node has made in run r
LlmCalls(r, node) ==
    Cardinality({ i \in 1..Len(llm_log[r]) : llm_log[r][i].node = node })

\* the outcomes a run has been given when it has been given none
NoEnv == [ fetch |-> <<>>, exec |-> <<>> ]

Init ==
    \E topic \in Topics, trend_urls \in UrlLists :
        /\ state = [ r \in Runs |->
                       WorkflowState(topic, trend_urls, IF r = 1 THEN "sink" ELSE None) ]
        /\ pc = [ r \in Runs |-> "start" ]
        /\ progress = [ r \in Runs |-> <<>> ]
        /\ llm_log = [ r \in Runs |-> <<>> ]
        /\ llm_replies = [ r \in Runs |-> <<>> ]
        /\ fetched = <<>>
        /\ visited = [ r \in Runs |-> <<>> ]
        /\ result = [ r \in Runs |-> [ status |-> "running" ] ]
        /\ faults = 0
        /\ ran = [ r \in Runs |-> {} ]
        /\ modules = "pristine"
        /\ env = [ r \in Runs |-> NoEnv ]
        /\ overlap = FALSE
        /\ chat = None
        /\ search = None
        /\ session = None
        /\ validation = None
        /\ trends = None

\* -------------------------------------------------------------- one step
\* Every run standing at step takes it.  outcome[r] is what the body of the
\* step does in run r after the progress callback has returned:
\*   [kind |-> "ok", state |-> ..., calls |-> the llm.invoke calls made]
\*   [kind |-> "raise", error |-> str(e)]         an Exception leaves it
\*   [kind |-> "exit"]                            a BaseException leaves it
\*   [kind |-> "hang"]                            it never returns
\* An Exception is caught at l.557 and answered with the defensive bundle;
\* a BaseException passes l.557 and reaches the caller.
NextPc(step) == IF step = "start" THEN EntryPoint
                ELSE IF step = "finish" THEN "returned"
                ELSE Edge(step)

StepOf(R, step, sink_raises, outcome) ==
    /\ \E r \in R : pc[r] = step
    /\ LET At(r)  == r \in R /\ pc[r] = step
           Out(r) == IF HasSink(state[r]) /\ sink_raises
                     THEN [ kind |-> "raise", error |-> SinkError ]
                     ELSE outcome[r]
           To(r)  == CASE Out(r).kind = "ok"    -> NextPc(step)
                       [] Out(r).kind = "raise" -> "returned"
                       [] Out(r).kind = "exit"  -> "raised"
                       [] Out(r).kind = "hang"  -> "hung"
       IN /\ pc' = [ r \in Runs |-> IF At(r) THEN To(r) ELSE pc[r] ]
          /\ state' = [ r \in Runs |->
                          IF At(r) /\ Out(r).kind = "ok" THEN Out(r).state ELSE state[r] ]
          /\ progress' = [ r \in Runs |->
                             IF At(r) /\ HasSink(state[r])
                             THEN Append(progress[r], Milestone(step))
                             ELSE progress[r] ]
          /\ llm_log' = [ r \in Runs |->
                            IF At(r) /\ Out(r).kind = "ok"
                            THEN llm_log[r] \o Out(r).calls
                            ELSE llm_log[r] ]
          /\ llm_replies' = [ r \in Runs |->
                                IF At(r) /\ Out(r).kind = "ok"
                                THEN llm_replies[r] \o Get(Out(r), "replies", <<>>)
                                ELSE llm_replies[r] ]
          /\ visited' = [ r \in Runs |->
                            IF At(r) /\ To(r) \in GraphNodes \cup {"finish"}
                            THEN Append(visited[r], To(r))
                            ELSE visited[r] ]
          /\ result' = [ r \in Runs |->
                           IF ~At(r) THEN result[r]
                           ELSE IF Out(r).kind = "raise"
                           THEN [ status |-> "failed", bundle |-> DefensiveBundle(Out(r).error) ]
                           ELSE IF Out(r).kind = "exit"
                           THEN [ status |-> "raised" ]
                           ELSE IF Out(r).kind = "ok" /\ step = "finish"
                           THEN [ status |-> "done", bundle |-> Bundle(state[r]) ]
                           ELSE result[r] ]

\* the two runs side by side: each run standing at step takes it, and nothing
\* but the pipeline changes
Step(step, sink_raises, outcome) ==
    /\ StepOf(Runs, step, sink_raises, outcome)
    /\ UNCHANGED <<process, chat, search, session, tools>>

\* get_llm() stands outside every try of its node: when building the client
\* raises, the Exception leaves the node
WithLlm(get_llm_ok, outcome) ==
    IF get_llm_ok THEN outcome ELSE [ kind |-> "raise", error |-> LlmClientError ]

Ok(st, calls) == [ kind |-> "ok", state |-> st, calls |-> calls ]

\* the outcome of a node with what llm.invoke gave for each of its calls:
\* by_human maps the human message of a call to the reply
Replied(outcome, by_human) ==
    IF outcome.kind = "ok"
    THEN outcome @@ [ replies |-> [ i \in 1..Len(outcome.calls) |->
                                      by_human[outcome.calls[i].human] ] ]
    ELSE outcome

\* the runs in which the body of step is executed: the run stands at step and
\* its progress callback, if any, returns
Executing(step, sink_raises) ==
    { r \in Runs : pc[r] = step /\ ~(HasSink(state[r]) /\ sink_raises) }

\* a progress callback can only raise where one is called
SinkCalled(step) == \E r \in Runs : pc[r] = step /\ HasSink(state[r])

\* 1 for an injected fault, 0 for none
B2N(b) == IF b THEN 1 ELSE 0

\* the bound of the model: the faults injected by one step stay within the
\* budget MaxFaults
Inject(n) ==
    /\ faults + n <= MaxFaults
    /\ faults' = faults + n

\* l.521-540
Start ==
    \E sink_raises \in BOOLEAN :
        LET Outcome(r) == Ok(state[r], <<>>)
        IN /\ sink_raises => SinkCalled("start")
           /\ Inject(B2N(sink_raises))
           /\ UNCHANGED <<fetched, ran>>
           /\ Step("start", sink_raises, [ r \in Runs |-> Outcome(r) ])

AnalyzeUrls ==
    \E sink_raises \in BOOLEAN :
    \E fetch \in [ UrlsOf(AdmittedUrls(state[1].trend_urls)) -> FetchOutcomes ] :
        LET Outcome(r) == Ok(analyze_urls_node(state[r], fetch), <<>>)
            used == Executing("analyze_urls", sink_raises) # {}
        IN /\ sink_raises => SinkCalled("analyze_urls")
           /\ ~used => \A u \in DOMAIN fetch : fetch[u] = NominalFetch
           /\ Inject(B2N(sink_raises)
                     + Cardinality({ u \in DOMAIN fetch : fetch[u] # NominalFetch }))
           /\ fetched' = IF used THEN fetch ELSE fetched
           /\ UNCHANGED ran
           /\ Step("analyze_urls", sink_raises, [ r \in Runs |-> Outcome(r) ])

GenerateCode ==
    \E sink_raises \in BOOLEAN, get_llm_ok \in BOOLEAN :
    \E synth \in [ UrlsOf(AdmittedUrls(state[1].trend_urls)) -> SynthReplies ] :
        LET Outcome(r) ==
                WithLlm(get_llm_ok,
                        Replied(Ok(generate_scraping_code_node(state[r], synth),
                                   SynthesisCalls(state[r])), synth))
            executing == Executing("generate_code", sink_raises)
            \* the URLs llm.invoke is called for
            asked == { u \in DOMAIN synth :
                         \E r \in executing : \E i \in 1..Len(state[r].website_analyses) :
                            /\ get_llm_ok
                            /\ state[r].website_analyses[i].url = u
                            /\ SynthesisAttempted(state[r].website_analyses[i]) }
        IN /\ sink_raises => SinkCalled("generate_code")
           /\ ~get_llm_ok => executing # {}
           /\ \A u \in DOMAIN synth \ asked : synth[u] = NominalSynth
           /\ Inject(B2N(sink_raises) + B2N(~get_llm_ok)
                     + Cardinality({ u \in asked : synth[u] # NominalSynth }))
           /\ UNCHANGED <<fetched, ran>>
           /\ Step("generate_code", sink_raises, [ r \in Runs |-> Outcome(r) ])

ExecuteCode ==
    \E sink_raises \in BOOLEAN :
    \E exec \in [ UrlsOf(AdmittedUrls(state[1].trend_urls)) -> ExecOutcomes \cup {NotRun} ] :
        LET Outcome(r) ==
                LET o == execute_scraping_code_node(state[r], exec)
                IN IF o.kind = "ok" THEN Ok(o.state, <<>>) ELSE o
            executing == Executing("execute_code", sink_raises)
            \* the URLs whose program is started
            run == { u \in DOMAIN exec :
                       \E r \in executing : \E i \in Started(state[r], exec) :
                          state[r].scraping_codes[i].url = u }
        IN /\ sink_raises => SinkCalled("execute_code")
           /\ \A u \in DOMAIN exec : (exec[u] # NotRun) <=> (u \in run)
           /\ Inject(B2N(sink_raises)
                     + Cardinality({ u \in run : exec[u] # NominalExec }))
           /\ UNCHANGED fetched
           /\ ran' = [ r \in Runs |->
                        IF r \in executing
                        THEN { state[r].scraping_codes[i].url : i \in Started(state[r], exec) }
                        ELSE ran[r] ]
           /\ Step("execute_code", sink_raises, [ r \in Runs |-> Outcome(r) ])

\* whether the node reaches llm.invoke (l.375)
SummaryAsksBackend(st) ==
    SuccessfulData(st) # <<>> /\ ~JsonDumpsRaises(SuccessfulData(st))

Summarize ==
    \E sink_raises \in BOOLEAN, get_llm_ok \in BOOLEAN :
    \E reply \in TextReplies("summary text") :
        LET Outcome(r) == WithLlm(get_llm_ok, Replied(summary_agent_node(state[r], reply),
                                                      [ t \in Topics |-> reply ]))
            executing == Executing("summarize", sink_raises)
            asked == get_llm_ok /\ \E r \in executing : SummaryAsksBackend(state[r])
        IN /\ sink_raises => SinkCalled("summarize")
           /\ ~get_llm_ok => executing # {}
           /\ ~asked => reply.ok
           /\ Inject(B2N(sink_raises) + B2N(~get_llm_ok) + B2N(~reply.ok))
           /\ UNCHANGED <<fetched, ran>>
           /\ Step("summarize", sink_raises, [ r \in Runs |-> Outcome(r) ])

WriteScript ==
    \E sink_raises \in BOOLEAN, get_llm_ok \in BOOLEAN :
    \E reply \in TextReplies("script text") :
        LET Outcome(r) == WithLlm(get_llm_ok,
                                  Replied(Ok(script_writer_node(state[r], reply),
                                             <<ScriptCall(state[r])>>),
                                          [ t \in Topics |-> reply ]))
            executing == Executing("write_script", sink_raises)
        IN /\ sink_raises => SinkCalled("write_script")
           /\ ~get_llm_ok => executing # {}
           /\ ~(get_llm_ok /\ executing # {}) => reply.ok
           /\ Inject(B2N(sink_raises) + B2N(~get_llm_ok) + B2N(~reply.ok))
           /\ UNCHANGED <<fetched, ran>>
           /\ Step("write_script", sink_raises, [ r \in Runs |-> Outcome(r) ])

WriteSocial ==
    \E sink_raises \in BOOLEAN, get_llm_ok \in BOOLEAN :
    \E reply \in TextReplies("social text") :
        LET Outcome(r) == WithLlm(get_llm_ok,
                                  Replied(Ok(social_media_writer_node(state[r], reply),
                                             <<SocialCall(state[r])>>),
                                          [ t \in Topics |-> reply ]))
            executing == Executing("write_social", sink_raises)
        IN /\ sink_raises => SinkCalled("write_social")
           /\ ~get_llm_ok => executing # {}
           /\ ~(get_llm_ok /\ executing # {}) => reply.ok
           /\ Inject(B2N(sink_raises) + B2N(~get_llm_ok) + B2N(~reply.ok))
           /\ UNCHANGED <<fetched, ran>>
           /\ Step("write_social", sink_raises, [ r \in Runs |-> Outcome(r) ])

\* l.545-555
Finish ==
    \E sink_raises \in BOOLEAN :
        LET Outcome(r) == Ok(state[r], <<>>)
        IN /\ sink_raises => SinkCalled("finish")
           /\ Inject(B2N(sink_raises))
           /\ UNCHANGED <<fetched, ran>>
           /\ Step("finish", sink_raises, [ r \in Runs |-> Outcome(r) ])

Next ==
    \/ Start
    \/ AnalyzeUrls
    \/ GenerateCode
    \/ ExecuteCode
    \/ Summarize
    \/ WriteScript
    \/ WriteSocial
    \/ Finish

Spec == Init /\ [][Next]_vars

\* ======================================================= runs in one process
\* Two calls of run_langgraph_workflow in one process, neither given a
\* progress callback, each taking its steps at its own pace: one after the
\* other, or interleaved in any way.
\*
\* Every program is handed the module objects of the process (l.286-293:
\* requests, json, re, ...).  Besides returning a record or raising, a program
\* can assign to an attribute of one of them; the assignment the model follows
\* is the one to json.dumps, which summary_agent_node calls at l.353.
PatchingExec == [ kind |-> "return", data |-> "record", patches |-> TRUE ]

ProcessExecOutcomes ==
    { NominalExec, [ kind |-> "error", error |-> "runtime error" ], PatchingExec }

Patches(outcome) == Get(outcome, "patches", FALSE)

PatchedError == "TypeError: NoneType object is not callable"

\* json.dumps is looked up in the json module when l.353 is reached, which is
\* after the early return of l.346-348
WithJson(mods, st, outcome) ==
    IF mods = "patched" /\ SuccessfulData(st) # <<>>
    THEN [ kind |-> "raise", error |-> PatchedError ]
    ELSE outcome

\* the backend answers every call
TextReply(text) == [ ok |-> TRUE, content |-> text ]

\* run r is between its first step and its end
UnderWay(r) == pc[r] \notin {"start", "returned", "raised", "hung"}

\* run r alone takes step
ProcStep(r, step, outcome) ==
    /\ StepOf({r}, step, FALSE, [ q \in {r} |-> outcome ])
    /\ overlap' = (overlap \/ \E q \in Runs \ {r} : UnderWay(q))
    /\ UNCHANGED <<fetched, chat, search, session, tools>>

InitRuns ==
    \E topic \in Topics, trend_urls \in UrlLists :
        /\ state = [ r \in Runs |->
                       WorkflowState(IF r = 1 THEN "AI Trends" ELSE topic, trend_urls, None) ]
        /\ pc = [ r \in Runs |-> "start" ]
        /\ progress = [ r \in Runs |-> <<>> ]
        /\ llm_log = [ r \in Runs |-> <<>> ]
        /\ llm_replies = [ r \in Runs |-> <<>> ]
        /\ fetched = <<>>
        /\ visited = [ r \in Runs |-> <<>> ]
        /\ result = [ r \in Runs |-> [ status |-> "running" ] ]
        /\ faults = 0
        /\ ran = [ r \in Runs |-> {} ]
        /\ modules = "pristine"
        /\ env = [ r \in Runs |-> NoEnv ]
        /\ overlap = FALSE
        /\ chat = None
        /\ search = None
        /\ session = None
        /\ validation = None
        /\ trends = None

ProcStart(r) ==
    /\ ProcStep(r, "start", Ok(state[r], <<>>))
    /\ UNCHANGED <<faults, ran, modules, env>>

ProcAnalyzeUrls(r) ==
    \E fetch \in [ UrlsOf(AdmittedUrls(state[r].trend_urls)) -> FetchOutcomes ] :
        /\ Inject(Cardinality({ u \in DOMAIN fetch : fetch[u] # NominalFetch }))
        /\ env' = [ env EXCEPT ![r].fetch = fetch ]
        /\ ProcStep(r, "analyze_urls", Ok(analyze_urls_node(state[r], fetch), <<>>))
        /\ UNCHANGED <<ran, modules>>

ProcGenerateCode(r) ==
    LET synth == [ u \in UrlsOf(AdmittedUrls(state[r].trend_urls)) |-> NominalSynth ]
    IN /\ ProcStep(r, "generate_code",
                   Replied(Ok(generate_scraping_code_node(state[r], synth),
                              SynthesisCalls(state[r])), synth))
       /\ UNCHANGED <<faults, ran, modules, env>>

ProcExecuteCode(r) ==
    \E exec \in [ UrlsOf(AdmittedUrls(state[r].trend_urls)) -> ProcessExecOutcomes ] :
        LET o == execute_scraping_code_node(state[r], exec)
            run == { state[r].scraping_codes[i].url : i \in Started(state[r], exec) }
        IN /\ pc[r] = "execute_code"
           /\ \A u \in DOMAIN exec \ run : exec[u] = NominalExec
           /\ Inject(Cardinality({ u \in run : exec[u] # NominalExec }))
           /\ env' = [ env EXCEPT ![r].exec = exec ]
           /\ ran' = [ ran EXCEPT ![r] = run ]
           /\ modules' = IF \E u \in run : Patches(exec[u]) THEN "patched" ELSE modules
           /\ ProcStep(r, "execute_code", IF o.kind = "ok" THEN Ok(o.state, <<>>) ELSE o)

ProcSummarize(r) ==
    /\ pc[r] = "summarize"
    /\ ProcStep(r, "summarize",
                WithJson(modules, state[r],
                         Replied(summary_agent_node(state[r], TextReply("summary text")),
                                 [ t \in Topics |-> TextReply("summary text") ])))
    /\ UNCHANGED <<faults, ran, modules, env>>

ProcWriteScript(r) ==
    /\ pc[r] = "write_script"
    /\ ProcStep(r, "write_script",
                Replied(Ok(script_writer_node(state[r], TextReply("script text")),
                           <<ScriptCall(state[r])>>),
                        [ t \in Topics |-> TextReply("script text") ]))
    /\ UNCHANGED <<faults, ran, modules, env>>

ProcWriteSocial(r) ==
    /\ pc[r] = "write_social"
    /\ ProcStep(r, "write_social",
                Replied(Ok(social_media_writer_node(state[r], TextReply("social text")),
                           <<SocialCall(state[r])>>),
                        [ t \in Topics |-> TextReply("social text") ]))
    /\ UNCHANGED <<faults, ran, modules, env>>

ProcFinish(r) ==
    /\ ProcStep(r, "finish", Ok(state[r], <<>>))
    /\ UNCHANGED <<faults, ran, modules, env>>

NextRuns ==
    \E r \in Runs :
        \/ ProcStart(r)
        \/ ProcAnalyzeUrls(r)
        \/ ProcGenerateCode(r)
        \/ ProcExecuteCode(r)
        \/ ProcSummarize(r)
        \/ ProcWriteScript(r)
        \/ ProcWriteSocial(r)
        \/ ProcFinish(r)

SpecRuns == InitRuns /\ [][NextRuns]_vars

\* ================================================== the programs of one run
\* The execution stage of one run, program by program.  exec(code, exec_globals)
\* runs each text in the interpreter of the pipeline: exec_globals is a new
\* dict for every item (l.286), its values are the module objects of the
\* process, and as it has no __builtins__ entry exec gives the text the real
\* builtins, import and the frames of its callers included.  A program is
\* described by what it does besides returning a record:
\*   patches       it assigns to json.dumps and json.loads of the module it is handed
\*   uses_json     it calls json.loads
\*   writes_state  it assigns to state[topic] through the frame of
\*                 execute_scraping_code_node (sys._getframe)
PlainProgram == [ patches |-> FALSE, uses_json |-> FALSE, writes_state |-> FALSE ]

Programs ==
    { PlainProgram,
      [ PlainProgram EXCEPT !.patches = TRUE ],
      [ PlainProgram EXCEPT !.uses_json = TRUE ],
      [ PlainProgram EXCEPT !.writes_state = TRUE ] }

Overwritten == "overwritten"

\* what exec and main(url) give for a program run on the modules mods
Behaviour(program, mods) ==
    IF program.uses_json /\ mods = "patched"
    THEN [ kind |-> "error", error |-> PatchedError ]
    ELSE NominalExec

\* the modules as item i of the loop of l.274 finds them
ModulesAt(st, programs, mods, i) ==
    IF \E j \in 1..(i - 1) :
          /\ ~ShortCircuited(st.scraping_codes[j])
          /\ programs[st.scraping_codes[j].url].patches
    THEN "patched"
    ELSE mods

\* the outcome of every program of the loop, in loop order
LoopOutcomes(st, programs, mods) ==
    [ u \in DOMAIN programs |->
        LET at == { i \in 1..Len(st.scraping_codes) : st.scraping_codes[i].url = u }
        IN IF at = {} THEN NominalExec
           ELSE Behaviour(programs[u], ModulesAt(st, programs, mods, FirstOf(at))) ]

\* the programs of the loop that are run and have property p
RunWith(st, programs, p) ==
    { i \in 1..Len(st.scraping_codes) :
        /\ ~ShortCircuited(st.scraping_codes[i])
        /\ programs[st.scraping_codes[i].url][p] }

ExecutePrograms(r) ==
    \E programs \in [ UrlsOf(AdmittedUrls(state[r].trend_urls)) -> Programs ] :
        LET exec == LoopOutcomes(state[r], programs, modules)
            o    == execute_scraping_code_node(state[r], exec)
            st   == IF RunWith(state[r], programs, "writes_state") # {}
                    THEN [ o.state EXCEPT !.topic = Overwritten ]
                    ELSE o.state
        IN /\ pc[r] = "execute_code"
           /\ env' = [ env EXCEPT ![r] = [ fetch    |-> env[r].fetch,
                                           exec     |-> exec,
                                           programs |-> programs ] ]
           /\ ran' = [ ran EXCEPT ![r] =
                         { state[r].scraping_codes[i].url : i \in Started(state[r], exec) } ]
           /\ modules' = IF RunWith(state[r], programs, "patches") # {}
                         THEN "patched" ELSE modules
           /\ ProcStep(r, "execute_code", Ok(st, <<>>))
           /\ UNCHANGED faults

NextPrograms ==
    \/ ProcStart(1)
    \/ ProcAnalyzeUrls(1)
    \/ ProcGenerateCode(1)
    \/ ExecutePrograms(1)

SpecPrograms == InitRuns /\ [][NextPrograms]_vars

\* ============================================ the conversational workflow
\* agents/workflow.py: run_workflow starts one group chat and takes the video
\* script and the social copy out of what the chat leaves behind.  A message
\* text is a sequence of tokens: markers, whitespace (WS) and texts; no marker
\* is part of another marker or of a text.
VideoStart       == "---VIDEO_SCRIPT_START---"
VideoEnd         == "---VIDEO_SCRIPT_END---"
SocialStart      == "---SOCIAL_MEDIA_START---"
SocialEnd        == "---SOCIAL_MEDIA_END---"
FinalOutputStart == "===FINAL_OUTPUT_START==="
AtVideo          == "@@VIDEO_SCRIPT@@"
AtVideoEnd       == "@@VIDEO_SCRIPT_END@@"
AtSocial         == "@@SOCIAL_MEDIA@@"
AtSocialEnd      == "@@SOCIAL_MEDIA_END@@"

\* the lengths the extracted texts are compared with
MIN_SCRIPT_LEN          == 20
MIN_SOCIAL_LEN          == 10
HISTORY_SCRIPT_LEN      == 50
HISTORY_SOCIAL_LEN      == 30
WRITER_SCRIPT_LEN       == 100
WRITER_SOCIAL_LEN       == 50

\* the texts of the model, with their numbers of characters
ScriptText == "This is the video script."
SocialText == "This is the social media post."
ShortText  == "Too short"
LongScript ==
    "Opening shot of the city at dawn. Narrator: this is the trend of the week, told as a sixty second video script."
LongSocial == "Instagram and social post: the trend of the week in one minute."

\* the default texts of extract_content_from_messages and the text of the
\* final guard, in ASCII with the numbers of characters of the originals
NoScriptFound == "no script!"
NoSocialFound == "no social!"
GenerationProblem == "generation problem"

\* sub in s, for a marker sub
Has(tokens, sub) == \E i \in 1..Len(tokens) : tokens[i] = sub

\* any(keyword in content.lower() ...): the tokens that hold a script keyword
\* (script, video) and those that hold a social keyword (social, instagram)
ScriptKeywordTokens ==
    { ScriptText, LongScript, VideoStart, VideoEnd, AtVideo, AtVideoEnd }
SocialKeywordTokens ==
    { SocialText, LongSocial, SocialStart, SocialEnd, AtSocial, AtSocialEnd }

HasKeyword(tokens, keyworded) == \E i \in 1..Len(tokens) : tokens[i] \in keyworded

\* s.split(sep)[0]
BeforeFirst(tokens, sep) ==
    IF Has(tokens, sep) THEN SubSeq(tokens, 1, Find(tokens, sep, 1) - 1) ELSE tokens

\* s.split(sep)[1], for sep in s
SecondPiece(tokens, sep) ==
    BeforeFirst(SubSeq(tokens, Find(tokens, sep, 1) + 1, Len(tokens)), sep)

\* a marked text that keeps the whitespace around it
MarkedText_Unstripped(tokens, start, end) ==
    BeforeFirst(SecondPiece(tokens, start), end)

\* s.split(start)[1].split(end)[0].strip(), for start in s
MarkedText(tokens, start, end) ==
    Strip(BeforeFirst(SecondPiece(tokens, start), end))

\* len(text)
Length(tokens) == Len(Join(tokens))

\* what one message of the history gives (l.265-305), for the values found in
\* the messages after it:
\*   [return |-> TRUE, ...] when the loop is left with the marked texts
StepMessage(msg, found) ==
    LET content == msg.content
    IN IF /\ Has(content, FinalOutputStart)
          /\ Has(content, AtVideo)
          /\ Has(content, AtSocial)
       THEN [ return       |-> TRUE,
              video_script |-> MarkedText(content, AtVideo, AtVideoEnd),
              social_media |-> MarkedText(content, AtSocial, AtSocialEnd) ]
       ELSE LET video_part  == MarkedText(content, VideoStart, VideoEnd)
                social_part == MarkedText(content, SocialStart, SocialEnd)
                v1 == IF Has(content, VideoStart) /\ Length(video_part) > HISTORY_SCRIPT_LEN
                      THEN video_part ELSE found.video_script
                s1 == IF Has(content, SocialStart) /\ Length(social_part) > HISTORY_SOCIAL_LEN
                      THEN social_part ELSE found.social_media
                script_writer == msg.name = "Script_Writer" /\ Length(content) > WRITER_SCRIPT_LEN
                social_writer == msg.name = "Social_Media_Writer" /\ Length(content) > WRITER_SOCIAL_LEN
            IN [ return       |-> FALSE,
                 video_script |-> IF /\ script_writer
                                     /\ v1 = None
                                     /\ HasKeyword(content, ScriptKeywordTokens)
                                  THEN content ELSE v1,
                 social_media |-> IF /\ ~script_writer
                                     /\ social_writer
                                     /\ s1 = None
                                     /\ HasKeyword(content, SocialKeywordTokens)
                                  THEN content ELSE s1 ]

\* the loop over reversed(messages), from the values found so far
RECURSIVE ScanMessages(_, _)
ScanMessages(messages, found) ==
    IF messages = <<>>
    THEN [ video_script |-> IF found.video_script = None THEN <<NoScriptFound>>
                            ELSE found.video_script,
           social_media |-> IF found.social_media = None THEN <<NoSocialFound>>
                            ELSE found.social_media ]
    ELSE LET after == StepMessage(messages[Len(messages)], found)
         IN IF after.return
            THEN [ video_script |-> after.video_script,
                   social_media |-> after.social_media ]
            ELSE ScanMessages(SubSeq(messages, 1, Len(messages) - 1),
                              [ video_script |-> after.video_script,
                                social_media |-> after.social_media ])

\* l.260-311
extract_content_from_messages(messages) ==
    ScanMessages(messages, [ video_script |-> None, social_media |-> None ])

\* l.321-350: the three ways of extraction.  When the start marker of the
\* social copy is missing in the old format, split(...)[1] raises IndexError
\* and the except branch extracts from the history.
Extracted(final_message, messages) ==
    IF /\ Has(final_message, FinalOutputStart)
       /\ Has(final_message, AtVideo)
       /\ Has(final_message, AtSocial)
    THEN [ video_script |-> MarkedText(final_message, AtVideo, AtVideoEnd),
           social_media |-> MarkedText(final_message, AtSocial, AtSocialEnd) ]
    ELSE IF Has(final_message, VideoStart)
    THEN IF Has(final_message, SocialStart)
         THEN [ video_script |-> MarkedText(final_message, VideoStart, VideoEnd),
                social_media |-> MarkedText(final_message, SocialStart, SocialEnd) ]
         ELSE extract_content_from_messages(messages)
    ELSE extract_content_from_messages(messages)

\* l.353-356: if not text or len(text.strip()) < shortest
Guarded(text, shortest) ==
    IF text = <<>> \/ Length(Strip(text)) < shortest THEN GenerationProblem
    ELSE Join(text)

\* l.313-367
ExtractedResult(final_message, messages) ==
    LET extracted == Extracted(final_message, messages)
    IN [ video_script |-> Guarded(extracted.video_script, MIN_SCRIPT_LEN),
         social_media |-> Guarded(extracted.social_media, MIN_SOCIAL_LEN) ]

\* the texts the agents put between markers
MarkedTexts ==
    { <<>>, <<WS>>, <<ShortText>>, <<WS, ScriptText, WS>>, <<SocialText>>,
      <<WS, LongScript>>, <<LongSocial, WS>> }

\* the final messages of the user proxy: both pairs of the old format in
\* either order, a pair missing, the script start given twice, the new format
\* alone and with the old one, and no marker at all
FinalMessages ==
    UNION { { <<"FINAL_CONTENT", WS, VideoStart>> \o t1 \o <<VideoEnd, WS, SocialStart>>
                  \o t2 \o <<SocialEnd, WS>>,
              <<SocialStart>> \o t2 \o <<SocialEnd, VideoStart>> \o t1 \o <<VideoEnd>>,
              <<VideoStart>> \o t1 \o <<VideoStart>> \o t2 \o <<VideoEnd, SocialStart>>
                  \o t2 \o <<SocialEnd>>,
              <<FinalOutputStart, AtVideo>> \o t1 \o <<AtVideoEnd, AtSocial>> \o t2
                  \o <<AtSocialEnd>>,
              <<FinalOutputStart, AtVideo>> \o t1 \o <<AtVideoEnd, AtSocial>> \o t2
                  \o <<AtSocialEnd, VideoStart>> \o t2 \o <<VideoEnd, SocialStart>>
                  \o t1 \o <<SocialEnd>> } : t1, t2 \in MarkedTexts }
        \cup { <<VideoStart>> \o t \o <<VideoEnd>> : t \in MarkedTexts }
        \cup { <<SocialStart>> \o t \o <<SocialEnd>> : t \in MarkedTexts }
        \cup MarkedTexts

\* what the group chat has in groupchat.messages when it ends
Histories ==
    { <<>>,
      << [ name |-> "Script_Writer", content |-> <<LongScript>> ],
         [ name |-> "Social_Media_Writer", content |-> <<LongSocial>> ] >>,
      << [ name |-> "Script_Writer", content |-> <<ShortText>> ],
         [ name |-> "user_proxy",
           content |-> <<VideoStart, LongScript, VideoEnd, SocialStart, LongSocial, SocialEnd>> ],
         [ name |-> "Social_Media_Writer", content |-> <<LongSocial>> ] >>,
      << [ name |-> "Workflow_Coordinator",
           content |-> <<FinalOutputStart, AtVideo, ScriptText, AtVideoEnd,
                         AtSocial, SocialText, AtSocialEnd>> ] >> }

\* the variables of the pipeline and of its process, when it is not run
PipelineIdle ==
    /\ state = [ r \in Runs |-> WorkflowState("", <<>>, None) ]
    /\ pc = [ r \in Runs |-> "start" ]
    /\ progress = [ r \in Runs |-> <<>> ]
    /\ llm_log = [ r \in Runs |-> <<>> ]
    /\ llm_replies = [ r \in Runs |-> <<>> ]
    /\ fetched = <<>>
    /\ visited = [ r \in Runs |-> <<>> ]
    /\ result = [ r \in Runs |-> [ status |-> "running" ] ]
    /\ faults = 0
    /\ ran = [ r \in Runs |-> {} ]
    /\ modules = "pristine"
    /\ env = [ r \in Runs |-> NoEnv ]
    /\ overlap = FALSE

\* run_workflow is called with no progress callback
InitChat ==
    /\ PipelineIdle
    /\ chat = [ phase |-> "called", initiated |-> 0 ]
    /\ search = None
    /\ session = None
    /\ validation = None
    /\ trends = None

\* l.82-257: the agents are built and user_proxy.initiate_chat is called; the
\* chat leaves the last message of the user proxy and the history
InitiateChat ==
    \E final_message \in FinalMessages, messages \in Histories :
        /\ chat.phase = "called"
        /\ chat' = [ phase         |-> "chatted",
                     initiated     |-> chat.initiated + 1,
                     final_message |-> final_message,
                     messages      |-> messages ]
        /\ UNCHANGED <<pipeline, process, search, session, tools>>

\* l.313-367
ExtractContent ==
    /\ chat.phase = "chatted"
    /\ chat' = [ chat EXCEPT !.phase = "returned" ]
                 @@ [ result |-> ExtractedResult(chat.final_message, chat.messages) ]
    /\ UNCHANGED <<pipeline, process, search, session, tools>>

NextChat ==
    \/ InitiateChat
    \/ ExtractContent

SpecChat == InitChat /\ [][NextChat]_vars

\* ========================================================= WebSearch.search
\* tools/web_search.py
\* content_text[:2000]
CONTENT_CAP == 2000
\* scrape_multiple_urls(trend_urls, max_urls=3)
TREND_URL_CAP == 3

\* scrape_url_content (l.39-117): resp is what requests.get and the parser give
\* for the url, [ok |-> FALSE] when the request or the parsing raises; the
\* body of a page is given by its number of characters.  NoContent (None in
\* the code) when it raised.
NoContent == [ none |-> TRUE ]

scrape_url_content(url, resp) ==
    IF resp.ok
    THEN [ title   |-> IF resp.title = "" THEN "no title" ELSE resp.title,
           url     |-> url,
           content |-> IF resp.body_chars = 0 THEN "no content"
                       ELSE [ chars |-> Min(resp.body_chars, CONTENT_CAP) ] ]
    ELSE NoContent

\* l.119-145
scrape_multiple_urls(urls, max_urls, scrape) ==
    LET urls_to_scrape == Take(urls, max_urls)
        contents == [ i \in 1..Len(urls_to_scrape) |->
                        scrape_url_content(urls_to_scrape[i], scrape[urls_to_scrape[i]]) ]
    IN SelectSeq(contents, LAMBDA content : content # NoContent)

\* a supplementary search that has no handler around it
TavilySearch_Unguarded(outcome) ==
    IF outcome.kind = "ok"
    THEN [ raised |-> FALSE,
           value  |-> [ i \in 1..Len(outcome.results) |->
                          [ title   |-> Get(outcome.results[i], "title", "No Title"),
                            url     |-> Get(outcome.results[i], "url", None),
                            content |-> Get(outcome.results[i], "content", "No Content"),
                            source  |-> "Tavily" ] ] ]
    ELSE IF outcome.kind = "no_results"
    THEN [ raised |-> FALSE, value |-> <<>> ]
    ELSE [ raised |-> TRUE ]

\* l.169-187: what the try block adds to all_results.  outcome is what the
\* client gives: its results, a response with no results key, an error raised
\* by client.search, or a response that is no dict or holds an item that is
\* none (AttributeError in the comprehension); except Exception catches both.
TavilySearch(outcome) ==
    IF outcome.kind = "ok"
    THEN [ raised |-> FALSE,
           value  |-> [ i \in 1..Len(outcome.results) |->
                          [ title   |-> Get(outcome.results[i], "title", "No Title"),
                            url     |-> Get(outcome.results[i], "url", None),
                            content |-> Get(outcome.results[i], "content", "No Content"),
                            source  |-> "Tavily" ] ] ]
    ELSE [ raised |-> FALSE, value |-> <<>> ]

\* l.192-194
LabelSource(all_results) ==
    [ i \in 1..Len(all_results) |->
        IF "source" \in DOMAIN all_results[i] THEN all_results[i]
        ELSE all_results[i] @@ [ source |-> "Trending News" ] ]

\* the parameter trend_urls: None by default, or a list
NoTrendUrls == [ given |-> FALSE ]
TrendUrls(urls) == [ given |-> TRUE, urls |-> urls ]

\* l.147-197: [raised |-> FALSE, value |-> the list returned] or
\* [raised |-> TRUE]
WebSearch_search(tavily_enabled, trend_urls, scrape, outcome) ==
    LET trend_results == IF trend_urls.given /\ trend_urls.urls # <<>>
                         THEN scrape_multiple_urls(trend_urls.urls, TREND_URL_CAP, scrape)
                         ELSE <<>>
        tavily == IF tavily_enabled THEN TavilySearch(outcome)
                  ELSE [ raised |-> FALSE, value |-> <<>> ]
    IN IF tavily.raised THEN [ raised |-> TRUE ]
       ELSE [ raised |-> FALSE, value |-> LabelSource(trend_results \o tavily.value) ]

\* what a request gives for a URL
ScrapeOutcomes ==
    { [ ok |-> TRUE, title |-> "Page", body_chars |-> 2500 ],
      [ ok |-> TRUE, title |-> "", body_chars |-> 0 ],
      [ ok |-> FALSE ] }

\* what the Tavily client gives
TavilyOutcomes ==
    { [ kind |-> "ok",
        results |-> << [ title |-> "Result 1", url |-> "http://example.com/1",
                         content |-> "Content 1" ],
                       [ url |-> "http://example.com/2" ] >> ],
      [ kind |-> "ok", results |-> <<>> ],
      [ kind |-> "no_results" ],
      [ kind |-> "error" ],
      [ kind |-> "bad_response" ] }

NotCalled == [ kind |-> "not_called" ]

\* search is called with a query, with no trend URLs or a list of them
InitSearch ==
    \E tavily_enabled \in BOOLEAN,
       trend_urls \in {NoTrendUrls} \cup { TrendUrls(urls) : urls \in UrlLists } :
    \E scrape \in [ (IF trend_urls.given THEN UrlsOf(trend_urls.urls) ELSE {}) -> ScrapeOutcomes ] :
    \E outcome \in (IF tavily_enabled THEN TavilyOutcomes ELSE {NotCalled}) :
        /\ PipelineIdle
        /\ chat = None
        /\ session = None
        /\ validation = None
        /\ trends = None
        /\ search = [ phase          |-> "called",
                      tavily_enabled |-> tavily_enabled,
                      trend_urls     |-> trend_urls,
                      scrape         |-> scrape,
                      tavily         |-> outcome ]

Search ==
    /\ search.phase = "called"
    /\ search' = [ search EXCEPT !.phase = "returned" ]
                   @@ [ answer |-> WebSearch_search(search.tavily_enabled, search.trend_urls,
                                                    search.scrape, search.tavily) ]
    /\ UNCHANGED <<pipeline, process, chat, session, tools>>

NextSearch == Search

SpecSearch == InitSearch /\ [][NextSearch]_vars

\* ==================================================== the seeds of the app
\* app.py l.258-271 and app_enhanced.py l.265-278: the LangGraph branch of the
\* button handler.
\* trend_urls with the cut before the filter
SeedUrls_CutFirst(news_items) ==
    LET first == Take(news_items, URL_CAP)
        kept  == SelectSeq(first, LAMBDA news : Get(news, "url", None) \notin {None, ""})
    IN [ i \in 1..Len(kept) |-> kept[i].url ]

\* [news['url'] for news in news_items if news.get('url')][:3]
SeedUrls(news_items) ==
    LET kept == SelectSeq(news_items, LAMBDA news : Get(news, "url", None) \notin {None, ""})
    IN Take([ i \in 1..Len(kept) |-> kept[i].url ], URL_CAP)

\* longest list of related items of a topic
MaxItems == 4

\* a related item: with a url, with an empty url, with url None, with no url
NewsItems ==
    { [ title |-> "news", url |-> u ] : u \in {URL(1), URL(2), URL(3), "", None} }
        \cup { [ title |-> "news" ] }

RECURSIVE SeqsUpTo(_, _)
SeqsUpTo(S, n) ==
    IF n = 0 THEN { <<>> }
    ELSE SeqsUpTo(S, n - 1)
            \cup { Append(q, x) : q \in { t \in SeqsUpTo(S, n - 1) : Len(t) = n - 1 }, x \in S }

\* the topic selected in the session, with or without news_items
SelectedTopics ==
    { [ title |-> "AI Trends" ] }
        \cup { [ title |-> "AI Trends", news_items |-> items ] : items \in SeqsUpTo(NewsItems, MaxItems) }

InitSession ==
    \E selected_topic \in SelectedTopics :
        /\ PipelineIdle
        /\ chat = None
        /\ search = None
        /\ validation = None
        /\ trends = None
        /\ session = [ phase |-> "selected", selected_topic |-> selected_topic ]

\* the button is pressed with workflow_type LangGraph: the topic and the seed
\* URLs run_langgraph_workflow is called with
StartGeneration ==
    /\ session.phase = "selected"
    /\ session' = [ phase          |-> "started",
                    selected_topic |-> session.selected_topic,
                    topic          |-> session.selected_topic.title,
                    trend_urls     |-> SeedUrls(Get(session.selected_topic, "news_items", <<>>)) ]
    /\ UNCHANGED <<pipeline, process, chat, search, tools>>

NextSession == StartGeneration

SpecSession == InitSession /\ [][NextSession]_vars

\* ============================================== probe and synthesis of one URL
\* The first two nodes of the pipeline over a single URL, with the pages the
\* network can give for it and the responses the backend can give for its
\* program; no fault is injected elsewhere.
ProgramText == "def main(url): ..."

\* the selectors of each role that a page can match
MainMatches  == { {}, {"article"}, {"main", ".content", "#content", ".entry"},
                  {"main", "article", ".content", ".main-content", "#content", ".post", ".entry"} }
TextMatches  == { {}, {"h2"}, {"p", "h1", ".text", ".summary"},
                  {"p", "h1", "h2", "h3", ".text", ".description", ".summary"} }
ImageMatches == { {}, {"img", ".image", ".photo", "figure img"} }
LinkMatches  == { {}, {"a[href]", ".more-link"} }

Pages ==
    { [ title |-> title, json_ld |-> json_ld, meta_description |-> TRUE,
        lang |-> "en", total_elements |-> 40, structured_data |-> FALSE,
        matched |-> m \cup t \cup i \cup l ] :
        title \in {None, "Page"}, json_ld \in BOOLEAN,
        m \in MainMatches, t \in TextMatches, i \in ImageMatches, l \in LinkMatches }

PageOutcomes ==
    { [ ok |-> TRUE, page |-> page ] : page \in Pages }
        \cup { [ ok |-> FALSE, error |-> "connection error" ] }

\* the responses of the backend: prose and a closed block tagged python, a
\* closed block without a tag, a tagged block that is not closed, a block
\* without a tag that is not closed, no block, a tagged block after an
\* untagged one, two tagged blocks, or an error
Responses ==
    { <<"Here:", PyFence, WS, ProgramText, WS, Fence, "Done.">>,
      <<"Here:", Fence, WS, ProgramText, WS, Fence, "Done.">>,
      <<"Here:", PyFence, WS, ProgramText, WS>>,
      <<Fence, WS, ProgramText>>,
      <<ProgramText>>,
      <<WS, ProgramText, WS>>,
      <<Fence, "pip install bs4", Fence, WS, PyFence, WS, ProgramText, WS, Fence>>,
      <<PyFence, ProgramText, Fence, "or", PyFence, "def main(u): pass", Fence>>,
      <<PyFence, WS, Fence>> }

ResponseOutcomes ==
    { [ ok |-> TRUE, content |-> content ] : content \in Responses }
        \cup { [ ok |-> FALSE, error |-> BackendError ] }

InitSynthesis ==
    /\ state = [ r \in Runs |-> WorkflowState("AI Trends", <<URL(1)>>, None) ]
    /\ pc = [ r \in Runs |-> "start" ]
    /\ progress = [ r \in Runs |-> <<>> ]
    /\ llm_log = [ r \in Runs |-> <<>> ]
    /\ llm_replies = [ r \in Runs |-> <<>> ]
    /\ fetched = <<>>
    /\ visited = [ r \in Runs |-> <<>> ]
    /\ result = [ r \in Runs |-> [ status |-> "running" ] ]
    /\ faults = 0
    /\ ran = [ r \in Runs |-> {} ]
    /\ modules = "pristine"
    /\ env = [ r \in Runs |-> NoEnv ]
    /\ overlap = FALSE
    /\ chat = None
    /\ search = None
    /\ session = None
    /\ validation = None
    /\ trends = None

SynthStart ==
    /\ Step("start", FALSE, [ r \in Runs |-> Ok(state[r], <<>>) ])
    /\ UNCHANGED <<fetched, faults, ran>>

SynthAnalyzeUrls ==
    \E fetch \in [ UrlsOf(AdmittedUrls(state[1].trend_urls)) -> PageOutcomes ] :
        /\ pc[1] = "analyze_urls"
        /\ fetched' = fetch
        /\ Step("analyze_urls", FALSE,
                [ r \in Runs |-> Ok(analyze_urls_node(state[r], fetch), <<>>) ])
        /\ UNCHANGED <<faults, ran>>

SynthGenerateCode ==
    \E synth \in [ UrlsOf(AdmittedUrls(state[1].trend_urls)) -> ResponseOutcomes ] :
        /\ pc[1] = "generate_code"
        /\ Step("generate_code", FALSE,
                [ r \in Runs |-> Replied(Ok(generate_scraping_code_node(state[r], synth),
                                            SynthesisCalls(state[r])), synth) ])
        /\ UNCHANGED <<fetched, faults, ran>>

NextSynthesis ==
    \/ SynthStart
    \/ SynthAnalyzeUrls
    \/ SynthGenerateCode

SpecSynthesis == InitSynthesis /\ [][NextSynthesis]_vars

\* ==================================================== validate_scraped_data
\* tools/web_scraper_tools.py l.149-202.  A dict is a sequence of <<key, value>>
\* pairs in insertion order.  A text is given with its number of words, a URL
\* with its parts; a value stored under metadata is a dict, None or a str,
\* tagged with its type.
\* reading_time_minutes = max(1, word_count // 200)
WORDS_PER_MINUTE == 200

\* most keys of a dict handed to validate_scraped_data
MaxKeys == 3

NoText  == [ text |-> "", words |-> 0 ]
NoUrl   == [ scheme |-> "", netloc |-> "", path |-> "" ]

MetaDict(d) == [ type |-> "dict", d |-> d ]
MetaNone    == [ type |-> "none" ]
\* a str, with the keys that are substrings of it
MetaStr(keys) == [ type |-> "str", contains |-> keys ]

TemplateMetadata == [ word_count |-> 0, reading_time |-> "", source_domain |-> "" ]

\* l.159-172
standard_template ==
    [ url          |-> NoUrl,
      title        |-> "",
      content      |-> NoText,
      publish_date |-> "",
      author       |-> "",
      summary      |-> "",
      keywords     |-> <<>>,
      metadata     |-> MetaDict(TemplateMetadata) ]

\* key in validated_data.get("metadata", {}): whether it holds, or raises
\* (None is no container)
InMetadata(metadata, key) ==
    CASE metadata.type = "dict" -> [ raised |-> FALSE, value |-> key \in DOMAIN metadata.d ]
      [] metadata.type = "str"  -> [ raised |-> FALSE, value |-> key \in metadata.contains ]
      [] metadata.type = "none" -> [ raised |-> TRUE ]

\* validated_data["metadata"][key] = value: the new metadata, or a TypeError
\* (a str and None take no item assignment)
SetMetadata(metadata, key, value) ==
    IF metadata.type = "dict"
    THEN [ raised |-> FALSE,
           value  |-> MetaDict([ k \in DOMAIN metadata.d \cup {key} |->
                                   IF k = key THEN value ELSE metadata.d[k] ]) ]
    ELSE [ raised |-> TRUE ]

\* l.176-181: the loop over data.items(), from pair i on; validated is
\* [raised |-> FALSE, value |-> validated_data] or [raised |-> TRUE]
RECURSIVE MergeFrom(_, _, _)
MergeFrom(data, i, validated) ==
    IF validated.raised \/ i > Len(data) THEN validated
    ELSE LET key   == data[i][1]
             value == data[i][2]
         IN IF key \in DOMAIN validated.value
            THEN MergeFrom(data, i + 1,
                           [ raised |-> FALSE,
                             value  |-> [ validated.value EXCEPT ![key] = value ] ])
            ELSE LET held == InMetadata(validated.value.metadata, key)
                 IN IF held.raised THEN [ raised |-> TRUE ]
                    ELSE IF ~held.value THEN MergeFrom(data, i + 1, validated)
                    ELSE LET set == SetMetadata(validated.value.metadata, key, value)
                         IN IF set.raised THEN [ raised |-> TRUE ]
                            ELSE MergeFrom(data, i + 1,
                                           [ raised |-> FALSE,
                                             value  |-> [ validated.value EXCEPT
                                                            !.metadata = set.value ] ])

\* l.190-191: the minutes, then the unit
ReadingTime(word_count) ==
    LET minutes == IF word_count \div WORDS_PER_MINUTE < 1 THEN 1
                   ELSE word_count \div WORDS_PER_MINUTE
    IN ToString(minutes) \o " min"

\* l.184-191: outside every try
WithWordCount(validated) ==
    IF validated.raised \/ validated.value.content = NoText THEN validated
    ELSE LET word_count == validated.value.content.words
             counted == SetMetadata(validated.value.metadata, "word_count", word_count)
         IN IF counted.raised THEN [ raised |-> TRUE ]
            ELSE [ raised |-> FALSE,
                   value  |-> [ validated.value EXCEPT !.metadata =
                                  SetMetadata(counted.value, "reading_time",
                                              ReadingTime(word_count)).value ] ]

\* l.194-200: inside try ... except: pass
WithSourceDomain(validated) ==
    IF validated.raised \/ validated.value.url = NoUrl THEN validated
    ELSE LET set == SetMetadata(validated.value.metadata, "source_domain",
                                validated.value.url.netloc)
         IN IF set.raised THEN validated
            ELSE [ raised |-> FALSE,
                   value  |-> [ validated.value EXCEPT !.metadata = set.value ] ]

\* data is [dict |-> FALSE] for a value that is no dict, or
\* [dict |-> TRUE, items |-> the pairs]
validate_scraped_data(data) ==
    LET template == [ raised |-> FALSE, value |-> standard_template ]
        merged   == IF data.dict THEN MergeFrom(data.items, 1, template) ELSE template
    IN WithSourceDomain(WithWordCount(merged))

\* the pairs a scraped record can hold
ScrapedItems ==
    { <<"url", u>> : u \in { NoUrl, [ scheme |-> "https", netloc |-> "site1", path |-> "/a" ] } }
      \cup { <<"content", c>> : c \in { NoText, [ text |-> "two words", words |-> 2 ],
                                        [ text |-> "long text", words |-> 450 ] } }
      \cup { <<"metadata", m>> : m \in { MetaDict(TemplateMetadata),
                                         MetaDict([ word_count |-> 5 ]),
                                         MetaNone,
                                         MetaStr({"word_count"}) } }
      \cup { <<"word_count", 7>>, <<"title", "Title">>, <<"extra", "x">> }

\* the dicts of up to n pairs, no key twice
RECURSIVE ScrapedDicts(_)
ScrapedDicts(n) ==
    IF n = 0 THEN { <<>> }
    ELSE ScrapedDicts(n - 1)
            \cup { Append(d, item) :
                     d \in { t \in ScrapedDicts(n - 1) : Len(t) = n - 1 },
                     item \in ScrapedItems }

NoKeyTwice(d) == \A i, j \in 1..Len(d) : d[i][1] = d[j][1] => i = j

ScrapedInputs ==
    { [ dict |-> FALSE ] }
        \cup { [ dict |-> TRUE, items |-> d ] : d \in { t \in ScrapedDicts(MaxKeys) : NoKeyTwice(t) } }

InitValidation ==
    \E data \in ScrapedInputs :
        /\ PipelineIdle
        /\ chat = None
        /\ search = None
        /\ session = None
        /\ trends = None
        /\ validation = [ phase |-> "called", data |-> data ]

Validate ==
    /\ validation.phase = "called"
    /\ validation' = [ phase  |-> "over",
                       data   |-> validation.data,
                       answer |-> validate_scraped_data(validation.data) ]
    /\ UNCHANGED <<pipeline, process, chat, search, session, trends>>

NextValidation == Validate

SpecValidation == InitValidation /\ [][NextValidation]_vars

\* ============================================================ TrendFetcher
\* tools/trend_fetcher.py.  Time is counted in ticks; datetime.now() is the
\* reading of a clock that the process does not control, so a reading may be
\* any tick.
TicksPerHour == 2
\* the greatest reading of the clock
MaxClock == 5
\* most calls of get_aggregated_trends on one fetcher
MaxCalls == 3
\* most items of the feed
MaxFeed == 12

\* __init__(cache_duration_hours=1)
CACHE_DURATION_HOURS == 1
\* trends[:10] and all_trends[:10]
TREND_CAP == 10
\* score = 100 - i * 5
TOP_SCORE == 100
SCORE_STEP == 5

NoTime == [ set |-> FALSE ]
TimeAt(tick) == [ set |-> TRUE, at |-> tick ]

\* l.17-26
TrendFetcher(cache_duration_hours) ==
    [ cache_duration  |-> cache_duration_hours * TicksPerHour,
      last_fetch_time |-> NoTime,
      cached_trends   |-> <<>> ]

\* what requests.get(url) answers: a failure (connection, status, XML), or
\* the items of the RSS feed with the text of their title and description
FeedDown == [ ok |-> FALSE, items |-> <<>> ]
FeedOf(items) == [ ok |-> TRUE, items |-> items ]

Feeds ==
    { FeedDown,
      FeedOf(<<>>),
      FeedOf(<< [ title |-> "", description |-> "d" ] >>),
      FeedOf(<< [ title |-> "a", description |-> "d" ],
                [ title |-> "",  description |-> "d" ],
                [ title |-> "b", description |-> "" ] >>),
      FeedOf([ i \in 1..MaxFeed |-> [ title |-> "t" \o ToString(i), description |-> "d" ] ]) }

\* l.28-107: every exception ends in [], an item without title is dropped,
\* the first ten are returned
get_google_trends(feed) ==
    IF ~feed.ok THEN <<>>
    ELSE Take(SelectSeq(feed.items, LAMBDA item : item.title # ""), TREND_CAP)

\* l.128-141: i counts from 0
Ranked(google_trends) ==
    [ k \in 1..Len(google_trends) |->
        [ title       |-> google_trends[k].title,
          description |-> IF google_trends[k].description # ""
                          THEN google_trends[k].description
                          ELSE "rank " \o ToString(k),
          source      |-> "Google Trends",
          score       |-> TOP_SCORE - (k - 1) * SCORE_STEP ] ]

\* l.120: not force_refresh and self.last_fetch_time and
\*        (now - self.last_fetch_time < self.cache_duration)
FreshUnlessEmpty(fetcher, force_refresh, now) ==
    /\ ~force_refresh
    /\ fetcher.last_fetch_time.set
    /\ now - fetcher.last_fetch_time.at < fetcher.cache_duration
    /\ fetcher.cached_trends # <<>>

Fresh(fetcher, force_refresh, now) ==
    /\ ~force_refresh
    /\ fetcher.last_fetch_time.set
    /\ now - fetcher.last_fetch_time.at < fetcher.cache_duration

\* l.109-149: the fetcher after the call, whether it fetched, what it returned
get_aggregated_trends(fetcher, force_refresh, now, feed) ==
    IF Fresh(fetcher, force_refresh, now)
    THEN [ fetcher |-> fetcher, fetched |-> FALSE, returned |-> fetcher.cached_trends ]
    ELSE LET all_trends == Ranked(get_google_trends(feed))
             after == [ fetcher EXCEPT !.cached_trends   = Take(all_trends, TREND_CAP),
                                       !.last_fetch_time = TimeAt(now) ]
         IN [ fetcher |-> after, fetched |-> TRUE, returned |-> after.cached_trends ]

NoCall == [ made |-> FALSE ]

InitTrends ==
    /\ PipelineIdle
    /\ chat = None
    /\ search = None
    /\ session = None
    /\ validation = None
    /\ trends = [ fetcher |-> TrendFetcher(CACHE_DURATION_HOURS),
                  now     |-> 0,
                  calls   |-> 0,
                  call    |-> NoCall ]

\* the clock reads another tick
ClockReads ==
    \E tick \in 0..MaxClock :
        /\ tick # trends.now
        /\ trends' = [ trends EXCEPT !.now = tick ]
        /\ UNCHANGED <<pipeline, process, chat, search, session, validation>>

GetAggregatedTrends ==
    \E force_refresh \in BOOLEAN, feed \in Feeds :
        LET answer == get_aggregated_trends(trends.fetcher, force_refresh, trends.now, feed)
        IN /\ trends.calls < MaxCalls
           /\ trends' = [ trends EXCEPT
                            !.fetcher = answer.fetcher,
                            !.calls   = @ + 1,
                            !.call    = [ made          |-> TRUE,
                                          force_refresh |-> force_refresh,
                                          now           |-> trends.now,
                                          before        |-> trends.fetcher,
                                          google_trends |-> get_google_trends(feed),
                                          fetched       |-> answer.fetched,
                                          returned      |-> answer.returned ] ]
           /\ UNCHANGED <<pipeline, process, chat, search, session, validation>>

NextTrends == ClockReads \/ GetAggregatedTrends

SpecTrends == InitTrends /\ [][NextTrends]_vars

\* ==================================================================== claims
\* node has run to its end in run r: the graph has moved on to the next node
Completed(r, node) == \E i \in 1..Len(visited[r]) : visited[r][i] = Edge(node)

\* the caller of run r has an answer
Ended(r) == pc[r] \in {"returned", "raised"}

\* the first three URLs of a list, written out
FirstThree(trend_urls) ==
    [ i \in 1..(IF Len(trend_urls) < 3 THEN Len(trend_urls) ELSE 3) |-> trend_urls[i] ]

\* the three per-URL lists of run r, each with the node that writes it
PerUrlLists(r) ==
    { <<"analyze_urls", state[r].website_analyses>>,
      <<"generate_code", state[r].scraping_codes>>,
      <<"execute_code", state[r].scraped_data>> }

\* C1: run_langgraph_workflow never lets a fault reach its caller, whatever
\* faults are injected in the five stages, and the bundle it returns has
\* strings as video_script, social_media and summary.
C1_NeverThrows ==
    \A r \in Runs :
        /\ pc[r] # "raised"
        /\ pc[r] = "returned" =>
              /\ result[r].status \in {"done", "failed"}
              /\ result[r].bundle.video_script \in STRING
              /\ result[r].bundle.social_media \in STRING
              /\ result[r].bundle.summary \in STRING

\* C2 as stated: after a run that went through all its stages, the three
\* per-URL lists have the length of the URL list of the run state and position
\* i of each carries URL i.
C2_AlignedWithTrendUrls ==
    \A r \in Runs : result[r].status = "done" =>
        \A l \in PerUrlLists(r) :
            /\ Len(l[2]) = Len(state[r].trend_urls)
            /\ \A i \in 1..Len(l[2]) : l[2][i].url = state[r].trend_urls[i]

\* C2 as amended: a list whose stage has run to its end has the length of
\* the admitted URLs, the first URL_CAP entries of the URL list, and position i
\* carries URL i, whichever items failed; a list whose stage has not is empty.
C2_IndexAlignment ==
    \A r \in Runs : \A l \in PerUrlLists(r) :
        IF Completed(r, l[1])
        THEN /\ Len(l[2]) = Min(URL_CAP, Len(state[r].trend_urls))
             /\ \A i \in 1..Len(l[2]) : l[2][i].url = state[r].trend_urls[i]
        ELSE l[2] = <<>>

\* a run over more URLs than are admitted that went through all its stages,
\* with one item failed in synthesis and another in execution
C2_Witness ==
    \E r \in Runs :
        /\ result[r].status = "done"
        /\ Len(state[r].trend_urls) > URL_CAP
        /\ \E i, j \in 1..Len(state[r].scraping_codes) :
              /\ ~state[r].scraping_codes[i].generation_success
              /\ state[r].scraping_codes[j].generation_success
              /\ ~state[r].scraped_data[j].execution_success

\* C3 as stated, for the runs given no progress callback: the bundle returned
\* for more than 3 URLs lists the first 3 of them as processed_urls.
C3_ProcessedUrlsAreFirstThree ==
    \A r \in Runs :
        (~HasSink(state[r]) /\ pc[r] = "returned" /\ Len(state[r].trend_urls) > 3) =>
            result[r].bundle.processed_urls = FirstThree(state[r].trend_urls)

\* C3 as amended: only the first 3 URLs are ever fetched, synthesized for and
\* executed; without an injected fault the run ends normally however many URLs
\* are given; processed_urls never has more than 3 entries, is the first 3
\* URLs in input order in the bundle of a run that went through all its
\* stages, and is empty in the defensive-failure bundle.
C3_CapEnforcement ==
    \A r \in Runs :
        LET first == FirstThree(state[r].trend_urls)
            firstSet == { first[i] : i \in 1..Len(first) }
        IN /\ DOMAIN fetched \subseteq firstSet
           /\ \A l \in PerUrlLists(r) :
                 /\ Len(l[2]) <= 3
                 /\ \A i \in 1..Len(l[2]) : l[2][i].url = first[i]
           /\ \A i \in 1..Len(llm_log[r]) :
                 llm_log[r][i].node = "generate_code" => llm_log[r][i].human \in firstSet
           /\ (pc[r] = "returned" /\ faults = 0) => result[r].status = "done"
           /\ result[r].status = "done" => result[r].bundle.processed_urls = first
           /\ result[r].status = "failed" => result[r].bundle.processed_urls = <<>>

\* a run over more than 3 URLs that went through all its stages
C3_Witness ==
    \E r \in Runs :
        /\ result[r].status = "done"
        /\ Len(state[r].trend_urls) > 3
        /\ Len(result[r].bundle.processed_urls) = 3

\* C4: once the probe stage has run, every admitted URL has its record at its
\* position, no probe raised, and the record of a URL whose fetch failed has
\* strategy general-scraping, the fallback selectors and the error text in
\* meta_info.
C4_DegradationNotDeletion ==
    \A r \in Runs : Completed(r, "analyze_urls") =>
        /\ Len(state[r].website_analyses) = Len(FirstThree(state[r].trend_urls))
        /\ \A i \in 1..Len(state[r].website_analyses) :
              LET a == state[r].website_analyses[i]
                  u == state[r].trend_urls[i]
              IN /\ a.url = u
                 /\ a.analysis_success
                 /\ a.structure.url = u
                 /\ ~fetched[u].ok =>
                       /\ a.structure.suggested_approach = "general-scraping"
                       /\ a.structure.main_content_selectors = <<>>
                       /\ a.structure.text_selectors = <<"p", "h1", "h2", "h3">>
                       /\ a.structure.image_selectors = <<"img">>
                       /\ a.structure.link_selectors = <<"a">>
                       /\ Get(a.structure.meta_info, "error", None) = fetched[u].error

\* the probe stage has run over two URLs, the fetch of the first succeeded and
\* the fetch of the second failed
C4_Witness ==
    \E r \in Runs :
        /\ Completed(r, "analyze_urls")
        /\ Len(state[r].website_analyses) >= 2
        /\ fetched[state[r].trend_urls[1]].ok
        /\ ~fetched[state[r].trend_urls[2]].ok

\* C5: once the synthesis stage has run, the program of every URL whose fetch
\* failed has generation_success = FALSE, and the stage has called the backend
\* once per URL whose fetch succeeded.
C5_ShortCircuit ==
    \A r \in Runs : Completed(r, "generate_code") =>
        /\ \A i \in 1..Len(state[r].scraping_codes) :
              ~fetched[state[r].scraping_codes[i].url].ok =>
                  ~state[r].scraping_codes[i].generation_success
        /\ LlmCalls(r, "generate_code") =
              Cardinality({ u \in DOMAIN fetched : fetched[u].ok })

\* no result of run r has execution_success with a non-empty payload
NoUsableResult(r) ==
    \A i \in 1..Len(state[r].scraped_data) :
        ~( /\ state[r].scraped_data[i].execution_success
           /\ state[r].scraped_data[i].data \notin {None, "", "{}"} )

\* C6: once the summary stage has run, if no result has execution_success
\* with a non-empty payload, the summary is the canned message naming the topic
\* and the stage has called the backend 0 times; and whatever the stage sent to
\* the backend are payloads of successful results, none of them empty.
C6_EmptySuccessSummary ==
    \A r \in Runs :
        /\ (Completed(r, "summarize") /\ NoUsableResult(r)) =>
              /\ state[r].summary =
                    "No valid data was scraped for topic " \o state[r].topic
              /\ LlmCalls(r, "summarize") = 0
        /\ \A c \in 1..Len(llm_log[r]) : llm_log[r][c].node = "summarize" =>
              \A k \in 1..Len(llm_log[r][c].system.data) :
                  \E i \in 1..Len(state[r].scraped_data) :
                      /\ state[r].scraped_data[i].url = llm_log[r][c].system.data[k].url
                      /\ state[r].scraped_data[i].data = llm_log[r][c].system.data[k].content
                      /\ state[r].scraped_data[i].execution_success
                      /\ state[r].scraped_data[i].data \notin {None, "", "{}"}

\* the summary stage has run over two results, one failed and one successful
\* with an empty payload
C6_Witness ==
    \E r \in Runs :
        /\ Completed(r, "summarize")
        /\ NoUsableResult(r)
        /\ \E i, j \in 1..Len(state[r].scraped_data) :
              /\ state[r].scraped_data[i].execution_success
              /\ ~state[r].scraped_data[j].execution_success

\* the states of the orchestrator, by the node that stands for each
VisitOrder ==
    <<"analyze_urls", "generate_code", "execute_code", "summarize",
      "write_script", "write_social", "finish">>

IsPrefix(s, t) == Len(s) <= Len(t) /\ s = SubSeq(t, 1, Len(s))

\* run r ended in the defensive bundle for a fault that is no failure of an
\* item: its progress callback raised, or the backend client could not be built
SystemicFault(r) ==
    /\ result[r].status = "failed"
    /\ result[r].bundle.video_script \in
          { "Workflow failed: " \o SinkError, "Workflow failed: " \o LlmClientError }

\* C7: the states are entered in the order AnalyzingStructure ... Done, none
\* twice, and a run that has ended with failures of items only has entered
\* every one of them.
C7_LinearOrder ==
    \A r \in Runs :
        /\ IsPrefix(visited[r], VisitOrder)
        /\ (Ended(r) /\ ~SystemicFault(r)) => visited[r] = VisitOrder

\* the explanatory texts the defensive bundle can carry
DefensiveTexts ==
    { "Workflow failed: " \o e :
        e \in {SinkError, LlmClientError, "TypeError: not JSON serializable"} }

\* C8 as stated, for the runs given no progress callback: in the defensive
\* bundle video_script, social_media and summary are explanatory error strings,
\* scraped_data_count is 0 and processed_urls is empty.
C8_AllTextsExplain ==
    \A r \in Runs : (~HasSink(state[r]) /\ result[r].status = "failed") =>
        /\ result[r].bundle.video_script \in DefensiveTexts
        /\ result[r].bundle.social_media \in DefensiveTexts
        /\ result[r].bundle.summary \in DefensiveTexts
        /\ result[r].bundle.scraped_data_count = 0
        /\ result[r].bundle.processed_urls = <<>>

\* C8 as amended: in the defensive bundle video_script and social_media are
\* the same explanatory error string, summary is the empty string,
\* scraped_data_count is 0 and processed_urls is empty, whatever the run had
\* gathered before the fault.
C8_DefensiveBundle ==
    \A r \in Runs : result[r].status = "failed" =>
        /\ pc[r] = "returned"
        /\ result[r].bundle.video_script \in DefensiveTexts
        /\ result[r].bundle.social_media = result[r].bundle.video_script
        /\ result[r].bundle.summary = ""
        /\ result[r].bundle.scraped_data_count = 0
        /\ result[r].bundle.processed_urls = <<>>

\* a run without a progress callback that ended in the defensive bundle after
\* a result had been executed with success
C8_Witness ==
    \E r \in Runs :
        /\ ~HasSink(state[r])
        /\ result[r].status = "failed"
        /\ \E i \in 1..Len(state[r].scraped_data) : state[r].scraped_data[i].execution_success

\* C9: the run with a progress callback and the run without one, on the same
\* topic, URLs and backend behaviour, enter the same states and give their
\* callers the same bundle, whatever the callback does.
C9_SinkIsObservational ==
    (\A r \in Runs : pc[r] \in {"returned", "raised", "hung"}) =>
        /\ visited[1] = visited[2]
        /\ result[1] = result[2]

\* the messages of the eight transitions of a run, in order
ExpectedMessages ==
    << "Starting LangGraph workflow",
       "Analyzing trend website structure",
       "Code Agent is generating scraping code",
       "Code Executor is running scraping code",
       "Summary Agent is consolidating results",
       "Script Writer is writing the video script",
       "Social Media Writer is writing posts",
       "LangGraph workflow complete" >>

\* the transitions run r has made: the start and the entries into the states
\* it has entered, but for the state it stands at the entry of
Transitions(r) ==
    IF pc[r] \in {"returned", "raised", "hung"} THEN 1 + Len(visited[r])
    ELSE Len(visited[r])

\* C10: the progress callback of a run has been called once for each
\* transition the run has made, with the messages of the transitions in stage
\* order: all eight of them when the run has gone through all its stages.
C10_ProgressAtEveryTransition ==
    \A r \in Runs : HasSink(state[r]) =>
        /\ Transitions(r) <= Len(ExpectedMessages)
        /\ progress[r] = SubSeq(ExpectedMessages, 1, Transitions(r))
        /\ result[r].status = "done" => progress[r] = ExpectedMessages

\* a run with a progress callback that went through all its stages with a
\* failed item and the canned summary
C10_Witness ==
    \E r \in Runs :
        /\ HasSink(state[r])
        /\ result[r].status = "done"
        /\ Len(state[r].scraped_data) > 0
        /\ NoUsableResult(r)
        /\ state[r].summary = CannedSummary(state[r].topic)
        /\ Len(progress[r]) = 8

\* the results of run r that have execution_success
Succeeded(r) ==
    { i \in 1..Len(state[r].scraped_data) : state[r].scraped_data[i].execution_success }

\* every admitted URL of run r was fetched, synthesized for and executed with
\* success
AllSucceeded(r) ==
    /\ \A i \in 1..Len(state[r].website_analyses) :
          fetched[state[r].website_analyses[i].url].ok
    /\ \A i \in 1..Len(state[r].scraping_codes) :
          state[r].scraping_codes[i].generation_success
    /\ \A i \in 1..Len(state[r].scraped_data) :
          state[r].scraped_data[i].execution_success

NothingToScrape(r) ==
    \/ Len(state[r].trend_urls) = 0
    \/ /\ Len(state[r].trend_urls) = 1
       /\ state[r].trend_urls[1] \in DOMAIN fetched
       /\ ~fetched[state[r].trend_urls[1]].ok

\* C13: a run that was given no URL, or a single URL whose fetch raised, and in
\* which no item succeeded, has completed once it is over, unless its progress
\* callback raised or the backend client could not be built: it has entered
\* the script and the social stage after the summary, and video_script and
\* social_media of its bundle are non-empty strings.
C13_NoSuccessStillCompletes ==
    \A r \in Runs :
        ( /\ NothingToScrape(r)
          /\ Succeeded(r) = {}
          /\ pc[r] \in {"returned", "raised", "hung"}
          /\ ~SystemicFault(r) ) =>
            /\ result[r].status = "done"
            /\ visited[r] = VisitOrder
            /\ result[r].bundle.summary # ""
            /\ result[r].bundle.video_script \in STRING \ {""}
            /\ result[r].bundle.social_media \in STRING \ {""}

\* C14: no run is ever left in a call that does not return: a program whose
\* entry point never returns does not keep the run from finishing.
C14_EveryRunFinishes ==
    \A r \in Runs : pc[r] # "hung"

C20_NoCodeNoExecution ==
    \A r \in Runs : Completed(r, "execute_code") =>
        /\ Len(state[r].scraped_data) = Len(state[r].scraping_codes)
        /\ \A i \in 1..Len(state[r].scraping_codes) :
              LET c == state[r].scraping_codes[i]
                  d == state[r].scraped_data[i]
              IN (~c.generation_success \/ c.code \in {None, ""}) =>
                    /\ d.url = c.url
                    /\ ~d.execution_success
                    /\ d.data = None
                    /\ c.url \notin ran[r]
                    /\ d.error = IF "error" \in DOMAIN c THEN c.error
                                 ELSE "No code to execute"

\* the execution stage has run over a program whose synthesis failed, a
\* program with an empty text and a program that was handed to exec
C20_Witness ==
    \E r \in Runs :
        /\ Completed(r, "execute_code")
        /\ \E i, j, k \in 1..Len(state[r].scraping_codes) :
              /\ ~state[r].scraping_codes[i].generation_success
              /\ state[r].scraped_data[i].error = BackendError
              /\ state[r].scraping_codes[j].generation_success
              /\ state[r].scraping_codes[j].code = ""
              /\ state[r].scraped_data[j].error = "No code to execute"
              /\ state[r].scraping_codes[k].url \in ran[r]

\* the two runs were given the same topic, the same URL list and the same
\* outcomes
SameInputs ==
    /\ state[1].topic = state[2].topic
    /\ state[1].trend_urls = state[2].trend_urls
    /\ state[1].progress_callback = state[2].progress_callback
    /\ env[1] = env[2]

Alone(topic, trend_urls, e) ==
    LET s1 == analyze_urls_node(WorkflowState(topic, trend_urls, None), e.fetch)
        s2 == generate_scraping_code_node(s1, [ u \in DOMAIN e.fetch |-> NominalSynth ])
        s3 == execute_scraping_code_node(s2, e.exec).state
        mods == IF \E u \in DOMAIN e.exec : Patches(e.exec[u])
                THEN "patched" ELSE "pristine"
        x4 == WithJson(mods, s3, summary_agent_node(s3, TextReply("summary text")))
    IN IF x4.kind = "raise"
       THEN [ state  |-> s3,
              result |-> [ status |-> "failed", bundle |-> DefensiveBundle(x4.error) ] ]
       ELSE LET s5 == script_writer_node(x4.state, TextReply("script text"))
                s6 == social_media_writer_node(s5, TextReply("social text"))
            IN [ state  |-> s6,
                 result |-> [ status |-> "done", bundle |-> Bundle(s6) ] ]

\* C15: whichever way the steps of two runs of one process are interleaved,
\* a run that has ended has the lists and has given its caller the bundle it
\* has when it is the only run of the process.
C15_SameAsAlone ==
    \A r \in Runs : Ended(r) =>
        LET alone == Alone(state[r].topic, state[r].trend_urls, env[r])
        IN /\ result[r] = alone.result
           /\ state[r] = alone.state

\* the position of a marker that is given once
PositionOf(tokens, marker) == CHOOSE i \in 1..Len(tokens) : tokens[i] = marker

Once(tokens, marker) == Cardinality({ i \in 1..Len(tokens) : tokens[i] = marker }) = 1

\* the message has each of the four markers of the old format once, each
\* start before its end, and is not in the new format
HasBothPairs(tokens) ==
    /\ \A marker \in {VideoStart, VideoEnd, SocialStart, SocialEnd} : Once(tokens, marker)
    /\ PositionOf(tokens, VideoStart) < PositionOf(tokens, VideoEnd)
    /\ PositionOf(tokens, SocialStart) < PositionOf(tokens, SocialEnd)
    /\ ~( /\ Has(tokens, FinalOutputStart)
          /\ Has(tokens, AtVideo)
          /\ Has(tokens, AtSocial) )

\* the text between two markers, without the whitespace around it
TextBetween(tokens, start, end) ==
    Join(Strip(SubSeq(tokens, PositionOf(tokens, start) + 1, PositionOf(tokens, end) - 1)))

Scraped(trend_urls, scrape) ==
    IF trend_urls.given
    THEN SelectSeq(FirstThree(trend_urls.urls), LAMBDA u : scrape[u].ok)
    ELSE <<>>

\* C17: when the Tavily client fails (client.search raises, or its response
\* cannot be read), search does not raise and returns one record for each of
\* the first 3 trend URLs that was scraped with success, in order, labelled
\* Trending News: the empty list when there are no trend URLs; and whatever
\* the client does, every record returned carries the source Tavily or
\* Trending News.
C17_TavilyFailureSwallowed ==
    search.phase = "returned" =>
        /\ ~search.answer.raised
        /\ \A i \in 1..Len(search.answer.value) :
              Get(search.answer.value[i], "source", None) \in {"Tavily", "Trending News"}
        /\ search.tavily.kind \in {"error", "bad_response"} =>
              LET scraped == Scraped(search.trend_urls, search.scrape)
              IN /\ Len(search.answer.value) = Len(scraped)
                 /\ \A i \in 1..Len(scraped) :
                       /\ search.answer.value[i].url = scraped[i]
                       /\ search.answer.value[i].source = "Trending News"
                 /\ search.trend_urls \in {NoTrendUrls, TrendUrls(<<>>)} =>
                       search.answer.value = <<>>

\* the client raised after three trend URLs were scraped, one without
\* success: two records are returned
C17_Witness ==
    /\ search.phase = "returned"
    /\ search.tavily.kind = "error"
    /\ search.trend_urls.given
    /\ Len(search.trend_urls.urls) > 3
    /\ ~search.scrape[search.trend_urls.urls[2]].ok
    /\ ~search.answer.raised
    /\ Len(search.answer.value) = 2

\* the positions of the related items that have a non-empty url
WithUrl(news_items) ==
    { i \in 1..Len(news_items) : Get(news_items[i], "url", None) \notin {None, ""} }

\* the k-th position of a set of positions
Kth(P, k) == CHOOSE i \in P : Cardinality({ j \in P : j < i }) = k - 1

\* C18: the seed URLs the pipeline is called with are the urls of the first 3
\* related items that have a non-empty url, in the order of the items: item k
\* of the seeds is the url of the k-th such item, whatever items with a missing
\* or empty url stand before it.
C18_FirstThreeNonEmpty ==
    session.phase = "started" =>
        LET news_items == Get(session.selected_topic, "news_items", <<>>)
            P == WithUrl(news_items)
        IN /\ Len(session.trend_urls) = (IF Cardinality(P) < 3 THEN Cardinality(P) ELSE 3)
           /\ \A k \in 1..Len(session.trend_urls) :
                 session.trend_urls[k] = news_items[Kth(P, k)].url
           /\ session.topic = session.selected_topic.title

\* the first related item has no url and the three after it have one: all
\* three are seeds
C18_Witness ==
    /\ session.phase = "started"
    /\ "news_items" \in DOMAIN session.selected_topic
    /\ Len(session.selected_topic.news_items) = 4
    /\ WithUrl(session.selected_topic.news_items) = {2, 3, 4}
    /\ Len(session.trend_urls) = 3

\* the calls of run r made by node for the human message human
CallsFor(r, node, human) ==
    { i \in 1..Len(llm_log[r]) : llm_log[r][i].node = node /\ llm_log[r][i].human = human }

\* C21: in a run the backend is called at most once for the synthesis of each
\* admitted URL and at most once each for the summary, the script and the
\* social copy, so at most n + 3 times for n <= 3 admitted URLs; every call has
\* one reply; a synthesis call that failed has exactly one program record for
\* its URL, failed, without text and carrying the error text of the reply.
C21_NoRetries ==
    \A r \in Runs :
        LET first == FirstThree(state[r].trend_urls)
        IN /\ Len(llm_replies[r]) = Len(llm_log[r])
           /\ \A i \in 1..Len(llm_log[r]) :
                 /\ Cardinality(CallsFor(r, llm_log[r][i].node, llm_log[r][i].human)) = 1
                 /\ llm_log[r][i].node = "generate_code" =>
                       \E k \in 1..Len(first) : first[k] = llm_log[r][i].human
                 /\ llm_log[r][i].node # "generate_code" =>
                       llm_log[r][i].human = state[r].topic
           /\ Len(llm_log[r]) <= Len(first) + 3
           /\ \A i \in 1..Len(llm_log[r]) :
                 (llm_log[r][i].node = "generate_code" /\ ~llm_replies[r][i].ok) =>
                     LET records == { k \in 1..Len(state[r].scraping_codes) :
                                        state[r].scraping_codes[k].url = llm_log[r][i].human }
                     IN /\ Cardinality(records) = 1
                        /\ \A k \in records :
                              /\ ~state[r].scraping_codes[k].generation_success
                              /\ state[r].scraping_codes[k].code = None
                              /\ state[r].scraping_codes[k].error = llm_replies[r][i].error

\* a run over 3 URLs that went through all its stages with 6 calls of the
\* backend, one of the synthesis calls having failed
C21_Witness ==
    \E r \in Runs :
        /\ result[r].status = "done"
        /\ Len(llm_log[r]) = 6
        /\ \E i \in 1..Len(llm_log[r]) :
              llm_log[r][i].node = "generate_code" /\ ~llm_replies[r][i].ok

\* the calls of run r made by node whose reply was an error
FailedCalls(r, node) ==
    { i \in 1..Len(llm_log[r]) : llm_log[r][i].node = node /\ ~llm_replies[r][i].ok }

\* C22: when the summary stage of a run has called the backend (so at least
\* one result was admitted) and the call failed, the summary is the text
\* Summary generation failed: followed by the error of the backend, no fault
\* has left the stage (the run stands in the script stage or after it), every
\* call of the script and of the social stage carries that text as summary, and
\* when this failure is the only fault of the run the run goes through both
\* stages to its end and returns the text as the summary of its bundle.
C22_SummaryFailureIsText ==
    \A r \in Runs : \A i \in FailedCalls(r, "summarize") :
        LET text == "Summary generation failed: " \o llm_replies[r][i].error
        IN /\ llm_log[r][i].system.data # <<>>
           /\ state[r].summary = text
           /\ text # ""
           /\ Completed(r, "summarize")
           /\ \A c \in 1..Len(llm_log[r]) :
                 llm_log[r][c].node \in {"write_script", "write_social"} =>
                     llm_log[r][c].system.summary = text
           /\ (faults = 1 /\ pc[r] = "returned") =>
                 /\ result[r].status = "done"
                 /\ LlmCalls(r, "write_script") = 1
                 /\ LlmCalls(r, "write_social") = 1
                 /\ result[r].bundle.summary = text

\* a run whose summary call failed and that went on through the script and the
\* social stage to its end
C22_Witness ==
    \E r \in Runs :
        /\ FailedCalls(r, "summarize") # {}
        /\ result[r].status = "done"
        /\ result[r].bundle.summary = "Summary generation failed: backend error"
        /\ LlmCalls(r, "write_script") = 1
        /\ LlmCalls(r, "write_social") = 1

\* C23: the script stage calls the backend at most once and the social stage
\* at most once, the social call after the script call; a run that has left
\* the summary stage and has ended, unless its progress callback raised or the
\* backend client could not be built, has made both calls; when the script
\* call failed, video_script is the text Video script writing failed: followed
\* by the error, no fault has left the script stage, and the social call carries
\* that text and the summary as context.
C23_SocialIndependentOfScript ==
    \A r \in Runs :
        /\ LlmCalls(r, "write_script") <= 1
        /\ LlmCalls(r, "write_social") <= 1
        /\ \A c \in 1..Len(llm_log[r]) : llm_log[r][c].node = "write_social" =>
              /\ c > 1
              /\ llm_log[r][c - 1].node = "write_script"
              /\ llm_log[r][c].system.video_script = state[r].video_script
              /\ llm_log[r][c].system.summary = state[r].summary
        /\ (Completed(r, "summarize") /\ Ended(r) /\ ~SystemicFault(r)) =>
              /\ result[r].status = "done"
              /\ LlmCalls(r, "write_script") = 1
              /\ LlmCalls(r, "write_social") = 1
        /\ \A i \in FailedCalls(r, "write_script") :
              /\ state[r].video_script =
                    "Video script writing failed: " \o llm_replies[r][i].error
              /\ Completed(r, "write_script")

\* a run whose script call failed and whose social call was answered
C23_Witness ==
    \E r \in Runs :
        /\ FailedCalls(r, "write_script") # {}
        /\ result[r].status = "done"
        /\ result[r].bundle.video_script = "Video script writing failed: backend error"
        /\ result[r].bundle.social_media = "social text"
        /\ llm_log[r][Len(llm_log[r])].system.video_script =
              "Video script writing failed: backend error"

\* the positions of the fence markers of a response, tagged or not
FencesOf(content) == { i \in 1..Len(content) : content[i] \in {PyFence, Fence} }

\* the content of the first fenced block of a response: what stands between
\* the first fence marker and the next one, or the end when the block is not
\* closed, without the whitespace around it; the whole text when there is none
FirstBlock(content) ==
    IF FencesOf(content) = {} THEN Join(content)
    ELSE LET open   == Kth(FencesOf(content), 1)
             rest   == { i \in FencesOf(content) : i > open }
             close  == IF rest = {} THEN Len(content) + 1 ELSE Kth(rest, 1)
         IN Join(Strip(SubSeq(content, open + 1, close - 1)))

\* C24: the text of every program with generation_success is the content of
\* the first fenced block of the response of the backend for its URL, when the
\* response has a fence marker (tagged or not, closed or not), and the whole
\* response when it has none.
C24_FirstFencedBlock ==
    \A r \in Runs : \A i \in 1..Len(llm_log[r]) :
        (llm_log[r][i].node = "generate_code" /\ llm_replies[r][i].ok) =>
            \A k \in 1..Len(state[r].scraping_codes) :
                state[r].scraping_codes[k].url = llm_log[r][i].human =>
                    /\ state[r].scraping_codes[k].generation_success
                    /\ state[r].scraping_codes[k].code = FirstBlock(llm_replies[r][i].content)

\* the number of the candidates of a role that match on a page
CappedMatch(list, candidates, matched, cap) ==
    LET P == { i \in 1..Len(candidates) : candidates[i] \in matched }
    IN /\ Len(list) = (IF Cardinality(P) < cap THEN Cardinality(P) ELSE cap)
       /\ \A k \in 1..Len(list) : list[k] = candidates[Kth(P, k)]

\* the strategy the priority rule gives for a fingerprint
ByPriority(structure) ==
    IF Get(structure.meta_info, "has_json_ld", FALSE) THEN "json-ld"
    ELSE IF Len(structure.main_content_selectors) > 0 THEN "content-selector"
    ELSE IF Len(structure.text_selectors) > 0 THEN "text-extraction"
    ELSE "general-scraping"

\* C25 as stated: the strategy of every fingerprint, the degraded one of a
\* failed fetch included, is the one the priority rule gives for its json-ld
\* flag and its selector lists.
C25_EveryFingerprintByPriority ==
    \A r \in Runs : \A i \in 1..Len(state[r].website_analyses) :
        state[r].website_analyses[i].structure.suggested_approach =
            ByPriority(state[r].website_analyses[i].structure)

\* C25 as amended: the fingerprint of a page that was fetched has the
\* strategy of the priority rule, and each of its selector lists holds the
\* first 3 (5 for text) of the candidates of its role that match on the page,
\* in candidate order; the degraded fingerprint of a failed fetch has the
\* strategy general-scraping with the fallback selectors.
C25_StrategyPriority ==
    \A r \in Runs : \A i \in 1..Len(state[r].website_analyses) :
        LET f == state[r].website_analyses[i].structure
            resp == fetched[f.url]
        IN IF resp.ok
           THEN /\ f.suggested_approach = ByPriority(f)
                /\ f.meta_info.has_json_ld = resp.page.json_ld
                /\ CappedMatch(f.main_content_selectors, MainCandidates, resp.page.matched, 3)
                /\ CappedMatch(f.text_selectors, TextCandidates, resp.page.matched, 5)
                /\ CappedMatch(f.image_selectors, ImageCandidates, resp.page.matched, 3)
                /\ CappedMatch(f.link_selectors, LinkCandidates, resp.page.matched, 3)
           ELSE /\ f.suggested_approach = "general-scraping"
                /\ f.main_content_selectors = <<>>
                /\ f.text_selectors = <<"p", "h1", "h2", "h3">>

\* the fingerprint of a page without structured data on which four
\* main-content candidates and all seven text candidates match
C25_Witness ==
    \E r \in Runs : \E i \in 1..Len(state[r].website_analyses) :
        LET f == state[r].website_analyses[i].structure
        IN /\ fetched[f.url].ok
           /\ ~fetched[f.url].page.json_ld
           /\ f.main_content_selectors = <<"main", ".content", "#content">>
           /\ f.text_selectors = <<"p", "h1", "h2", "h3", ".text">>
           /\ f.suggested_approach = "content-selector"

\* C26: once the execution stage has run the programs of a run, the result of
\* every item is the one its program gives when it is run alone on the modules
\* as the process loaded them, whatever the programs of the other items did,
\* and the topic of the run state is the one the run was called with.
C26_IsolatedContexts ==
    \A r \in Runs : "programs" \in DOMAIN env[r] =>
        /\ \A i \in 1..Len(state[r].scraped_data) :
              state[r].scraped_data[i] =
                  ExecRecord(state[r].scraping_codes[i],
                             Behaviour(env[r].programs[state[r].scraping_codes[i].url],
                                       "pristine"))
        /\ state[r].topic \in Topics

\* the results of run r whose program returned a payload
Returned(r) ==
    { i \in 1..Len(state[r].scraped_data) : state[r].scraped_data[i].execution_success }

\* C27: a run in which a program returned a payload, whatever the payload, is
\* not aborted by it: once the run is over, unless its progress callback
\* raised or the backend client could not be built, it has gone through the
\* summary, script and social stages, its summary is a non-empty string and its
\* bundle counts the results that have execution_success and lists the
\* admitted URLs.
C27_PayloadNeverAborts ==
    \A r \in Runs :
        (Returned(r) # {} /\ Ended(r) /\ ~SystemicFault(r)) =>
            /\ result[r].status = "done"
            /\ visited[r] = VisitOrder
            /\ result[r].bundle.summary # ""
            /\ result[r].bundle.scraped_data_count = Cardinality(Returned(r))
            /\ result[r].bundle.processed_urls = FirstThree(state[r].trend_urls)

\* the results of run r that the summary stage admits: execution_success with
\* a payload that is not empty
Admitted(r) ==
    { i \in Returned(r) : state[r].scraped_data[i].data \notin {None, "", "{}"} }

\* C28: in every bundle that is not the defensive one, scraped_data_count is
\* the number of results admitted into the summary, and the summary is the
\* canned message exactly when scraped_data_count is 0.
C28_CountMatchesAdmitted ==
    \A r \in Runs : result[r].status = "done" =>
        /\ result[r].bundle.scraped_data_count = Cardinality(Admitted(r))
        /\ (result[r].bundle.summary =
                "No valid data was scraped for topic " \o state[r].topic)
              <=> (result[r].bundle.scraped_data_count = 0)

\* the keys of the required shape
RequiredKeys ==
    {"url", "title", "content", "publish_date", "author", "summary", "keywords", "metadata"}

\* C29: for every input validate_scraped_data returns without raising, and
\* what it returns has every key of the required shape, its metadata being a
\* dict with word_count, reading_time and source_domain.
C29_AlwaysRequiredShape ==
    validation.phase = "over" =>
        /\ ~validation.answer.raised
        /\ DOMAIN validation.answer.value = RequiredKeys
        /\ validation.answer.value.metadata.type = "dict"
        /\ {"word_count", "reading_time", "source_domain"}
              \subseteq DOMAIN validation.answer.value.metadata.d

\* the fetch of a call is due: forced, the first, or the cache duration has
\* passed between the reading of the last fetch and this one
Due(call) ==
    \/ call.force_refresh
    \/ ~call.before.last_fetch_time.set
    \/ call.now - call.before.last_fetch_time.at >= call.before.cache_duration

====
